---- MODULE Spec2Model ----
(***************************************************************************)
(* A model of the peer-to-peer node core of Dusk: the gossip handlers of   *)
(* the event loop (node/mod.rs), the storage layer they write to           *)
(* (storage/disk.rs), the signed envelopes (verification/mod.rs), the CRDT *)
(* engine (crdt/) and the command handlers (commands/, dev_server.rs).     *)
(*                                                                         *)
(* The module holds one specification per concern, all over the same       *)
(* variables:                                                              *)
(*   SpecDm   direct messages: the DirectMessage gossip handler, send_dm   *)
(*            and the dm tables of the storage layer                       *)
(*   SpecDir  the peer directory: the ProfileAnnounce and ProfileRevoke    *)
(*            gossip handlers, the signed envelopes and the friend flag    *)
(***************************************************************************)
EXTENDS Naturals, Integers, Sequences, FiniteSets, TLC

(***************************************************************************)
(* Bounds of the model.                                                    *)
(***************************************************************************)
\* largest timestamp (millisecond clock reading) a direct message carries
MaxTs == 1
\* how many direct messages the event loop may persist in one run
MaxProcessed == 3

(***************************************************************************)
(* Program constants.                                                      *)
(***************************************************************************)
\* node/mod.rs:689 caps seen_dm_ids at 10000 entries; the model scales the
\* cap down so that the set can fill up within a few ids.  The handler only
\* ever compares the set's size with the cap.
SeenDmCap == 1
\* the page size the callers of load_dm_messages ask for (commands/dm.rs:142)
DmPageLimit == 50

(***************************************************************************)
(* Peers.  p0 is the local peer in the single-node specifications.         *)
(***************************************************************************)
Peers == {"p0", "p1", "p2"}
LocalPeer == "p0"
PeerRank == [p \in Peers |-> CASE p = "p0" -> 0 [] p = "p1" -> 1 [] OTHER -> 2]
\* the display name a peer publishes in its messages
NameOf == [p \in Peers |-> CASE p = "p0" -> "zoe" [] p = "p1" -> "amy" [] OTHER -> "bob"]

RemotePeers == Peers \ {LocalPeer}
Timestamps == 1..MaxTs
\* a message id is "dm_{sender}_{millis}" (commands/dm.rs): the pair <<sender, millis>>
DmId(sender, now) == <<sender, now>>
DmIds == {DmId(p, t) : p \in Peers, t \in Timestamps}

VARIABLES
    \* ---- event loop runtime state (node/mod.rs) ----
    seen_dm_ids,        \* recent-DM-ID dedup set
    subscriptions,      \* gossipsub topics the local swarm is subscribed to
    node_running,       \* node_handle is Some
    emitted,            \* the DuskEvents emitted by the last step
    logged,             \* the warnings logged by the last step
    sent,               \* the NodeCommands enqueued by the last command handler
    \* ---- storage (storage/disk.rs) ----
    dm_messages,        \* table dm_messages: a set of rows, id is the primary key
    dm_conversations,   \* table dm_conversations: conversation_id -> meta
    dm_message_fts,     \* FTS mirror: set of <<message_id, conversation_id>>
    fts_enabled,        \* whether the FTS5 table could be created
    directory,          \* table directory: peer_id -> DirectoryEntry
    gossip_in,          \* the profile gossip the swarm has ready for the loop: <<>> or <<m>>
    \* ---- community documents (crdt/mod.rs) and the join guard ----
    documents,          \* CrdtEngine.documents: community_id -> document
    pending_join_role_guard, \* communities marked for role hardening on first merge
    published,          \* the sync messages the last step published on dusk/sync
    frontend,           \* which command surface drives the engine: "tauri" or "dev_server"
    actor_high,         \* per kind of locally initialised document: its actor id sorts above the remote one
    \* ---- Command API ----
    returned,           \* what the last command handler returned: "" before any, "ok" or the error
    kick_pending,       \* the kick_member call that has passed its checks: <<>> or <<call>>
    \* ---- the remote peer (the same crdt/mod.rs, run by p1) ----
    peer_documents,     \* CrdtEngine.documents of the remote peer
    known,              \* per peer: the changes its engine holds, made there or merged in
    \* ---- relay and rendezvous (node/mod.rs, start) ----
    clock,              \* the time, in seconds since start
    relay_link,         \* "unstarted" before start; then the connection to the relay: "none", "down" or "up"
    relay_dials,        \* the dials of the relay the swarm has under way
    relay_reservation_active,
    relay_backoff_secs,
    relay_warn_at,      \* the deferred warning: <<>> or <<instant>>
    relay_retry_at,     \* the next reconnect attempt: <<>> or <<instant>>
    rendezvous_tick,    \* the instant of the next tick of the 120-second interval
    pending_registrations, \* queued namespaces
    pending_discoveries,
    pending_queued_at,  \* <<>> or <<instant>>
    registered_namespaces,
    rendezvous_calls,   \* the calls of the rendezvous client the last step made
    scheduled,          \* the reconnect delays scheduled since the backoff was last reset, and by what
    outage_since,       \* <<>>, or <<instant>> of the first failure since the relay was last reached
    last_queued_at,     \* the instant a namespace was last queued at
    registering,        \* rendezvous client: the namespaces with a register request not yet answered
    unregistered,       \* the namespaces unregistered and named by no register or discover command since
    \* ---- identity (commands/identity.rs) and the rest of storage ----
    identity,           \* AppState.identity: <<>> or <<peer_id>>
    key_value,          \* table key_value: the keys that hold a value
    app_meta,           \* table app_meta: the keys whose value is 1
    unloaded_documents, \* rows of table community_documents the engine holds no document for
    community_meta,     \* table community_meta: the community ids that have a row
    reset_pending,      \* reset_identity has sent the revocation and holds the identity lock
    \* ---- Command API handlers step by step (commands/*.rs) ----
    call,               \* the command handler in progress: <<>> or <<[cmd, pc, done]>>
    locks,              \* per mutex of AppState: "free", or who holds it: "handler" or "loop"
    command_queue,      \* how many NodeCommands wait in the channel of the event loop
    loop_at,            \* the event loop: "select", or handling a chat message: "awaiting_engine", "holding_engine"
    settings,           \* the UserSettings row, and the display name of the identity row (profile_name)
    voice_channels,     \* AppState.voice_channels: "cid:chid" -> the participants, in the order they joined
    calls_made,         \* how many commands the frontend has invoked
    \* ---- one channel of a community document (crdt/document.rs) ----
    channel_messages,   \* the list "messages" of the channel, as doc.get(&messages, i) yields it
    fetched,            \* what the last get_messages returned: <<>> before any, or <<result>>
    meta_created_by,    \* meta.created_by as transfer_ownership put it: <<>> while as initialised
    \* ---- connections (node/mod.rs, start) ----
    connected_peers,    \* the peers the event loop counts as connected
    established,        \* swarm: per peer other than the relay, the connections established
    \* ---- shutdown (commands/chat.rs, stop_node) ----
    stop_requested,     \* the frontend has invoked stop_node and the call has not returned
    \* ---- the sync topic between two peers (node/mod.rs, run by both) ----
    network,            \* per peer: the sync messages gossipsub has yet to hand to its event loop
    peer_guard,         \* pending_join_role_guard of the remote peer
    \* ---- history of the run ----
    dm_appends,         \* per id: how often the event loop called append_dm_message
    awaiting_first_merge, \* communities joined by invite with no successful merge since
    left_communities    \* communities left and neither joined nor created since

\* the state of the event loop task
loopVars == <<seen_dm_ids, subscriptions, node_running>>
\* the dm tables
dmVars == <<dm_messages, dm_conversations, dm_message_fts, fts_enabled, dm_appends>>
\* the directory table, and the profile gossip waiting for the event loop
dirVars == <<directory, gossip_in>>

\* what the last step put out
outVars == <<emitted, logged, sent>>

\* the community documents, the join guard, and the history kept about them
syncVars == <<documents, pending_join_role_guard, published, frontend, actor_high,
              awaiting_first_merge, left_communities>>

\* the result the last command handler returned, and the call in progress
cmdVars == <<returned, kick_pending>>

\* the engine of the remote peer, and what each engine has seen
peerVars == <<peer_documents, known>>

\* the relay and rendezvous state of the event loop, the swarm's side of it, and the clock
relayVars == <<clock, relay_link, relay_dials, relay_reservation_active, relay_backoff_secs,
               relay_warn_at, relay_retry_at, rendezvous_tick, pending_registrations,
               pending_discoveries, pending_queued_at, registered_namespaces,
               rendezvous_calls, scheduled, outage_since, last_queued_at,
               registering, unregistered>>

\* the identity in memory and on disk, the rows left without a document, and
\* the reset_identity call in progress
storedVars == <<identity, key_value, app_meta, unloaded_documents, reset_pending>>

\* the identity and the tables behind it, and the reset_identity call in progress
resetVars == <<storedVars, community_meta>>

\* the command handler in progress, the locks of AppState, the command queue, and what
\* the handlers keep besides documents and dm tables
handlerVars == <<call, locks, command_queue, loop_at, settings, voice_channels, calls_made>>

\* the message list of a channel, the last read of it, and the creator put in meta
queryVars == <<channel_messages, fetched, meta_created_by>>

\* the peers the loop counts as connected and the swarm's connections to them
swarmVars == <<connected_peers, established>>

\* the stop_node call the frontend has made and that has not returned
stopVars == <<stop_requested>>

\* the sync messages under way between the two peers, and the join guard of the remote one
netVars == <<network, peer_guard>>

vars == <<loopVars, outVars, dmVars, dirVars, syncVars, cmdVars, peerVars, relayVars, resetVars,
          handlerVars, queryVars, swarmVars, stopVars, netVars>>

\* an empty table
EmptyTable == [k \in {} |-> 0]

\* state.identity.lock() is free and holds an identity: the commands that
\* need one return "no identity loaded" otherwise
IdentityLoaded == ~reset_pending /\ identity # <<>>

(***************************************************************************)
(* Topic Namer (node/gossip.rs).                                           *)
(***************************************************************************)
SortedPair(a, b) == IF PeerRank[a] < PeerRank[b] THEN <<a, b>> ELSE <<b, a>>

topic_for_dm(a, b) == "dusk/dm/" \o SortedPair(a, b)[1] \o "/" \o SortedPair(a, b)[2]

topic_for_dm_inbox(p) == "dusk/dm/inbox/" \o p

topic_for_directory == "dusk/directory"

topic_for_sync == "dusk/sync"

\* the 64-bit hash of the sorted pair is modelled by the pair itself
dm_conversation_id(a, b) == "dm_" \o SortedPair(a, b)[1] \o "_" \o SortedPair(a, b)[2]

\* topic_str.starts_with("dusk/dm/inbox/")
IsInboxTopic(t) == \E p \in Peers : t = topic_for_dm_inbox(p)

(***************************************************************************)
(* Messages.                                                               *)
(***************************************************************************)
\* the message a peer builds in send_dm at time now
DirectMessage(from, to, now) ==
    [id |-> DmId(from, now), from_peer |-> from, to_peer |-> to,
     from_display_name |-> NameOf[from], timestamp |-> now]

\* the messages remote peers publish
DirectMessages == {DirectMessage(f, t, ts) :
                      f \in RemotePeers, t \in Peers, ts \in Timestamps}

DmTopics == {topic_for_dm(a, b) : a, b \in Peers}
              \cup {topic_for_dm_inbox(p) : p \in Peers}
              \cup {topic_for_directory}

(***************************************************************************)
(* Storage: the dm tables.                                                 *)
(***************************************************************************)
DmRow(conv, m) ==
    [id |-> m.id, conversation_id |-> conv, from_peer |-> m.from_peer,
     to_peer |-> m.to_peer, from_display_name |-> m.from_display_name,
     timestamp |-> m.timestamp]

\* INSERT ... ON CONFLICT(conversation_id) DO NOTHING
InsertConversationIfAbsent(convs, conv, m) ==
    IF conv \in DOMAIN convs THEN convs
    ELSE [c \in DOMAIN convs \cup {conv} |->
            IF c = conv
            THEN [peer_id |-> m.from_peer, display_name |-> m.from_display_name,
                  last_message_time |-> 0, unread_count |-> 0]
            ELSE convs[c]]

\* INSERT OR IGNORE INTO dm_messages: id is the primary key of the table
InsertMessageOrIgnore(rows, conv, m) ==
    IF \E r \in rows : r.id = m.id THEN rows ELSE rows \cup {DmRow(conv, m)}

\* the rows append_dm_message leaves in the three tables
append_dm_message(conv, m) ==
    LET rows == InsertMessageOrIgnore(dm_messages, conv, m)
        inserted == rows # dm_messages
    IN  [conversations |-> InsertConversationIfAbsent(dm_conversations, conv, m),
         messages |-> rows,
         fts |-> IF inserted /\ fts_enabled
                 THEN dm_message_fts \cup {<<m.id, conv>>}
                 ELSE dm_message_fts]

\* save_dm_conversation: insert, or overwrite every column on conflict
save_dm_conversation(convs, conv, meta) ==
    [c \in DOMAIN convs \cup {conv} |-> IF c = conv THEN meta ELSE convs[c]]

\* rows sorted by ascending timestamp (ties by id), as load_dm_messages returns
\* them after its final reverse()
RECURSIVE SortRows(_)
SortRows(rows) ==
    IF rows = {} THEN <<>>
    ELSE LET least == CHOOSE r \in rows :
                        \A q \in rows : \/ r.timestamp < q.timestamp
                                        \/ /\ r.timestamp = q.timestamp
                                           /\ PeerRank[r.id[1]] <= PeerRank[q.id[1]]
         IN  <<least>> \o SortRows(rows \ {least})

\* load_dm_messages(conv, before, limit); before = 0 stands for None
load_dm_messages(rows, conv, before, limit) ==
    IF limit = 0 THEN <<>>
    ELSE LET hits == {r \in rows : /\ r.conversation_id = conv
                                   /\ (before = 0 \/ r.timestamp < before)}
             asc == SortRows(hits)
             n == Len(asc)
         IN  IF n <= limit THEN asc ELSE SubSeq(asc, n - limit + 1, n)

(***************************************************************************)
(* Event loop: GossipMessage::DirectMessage (node/mod.rs).                 *)
(***************************************************************************)
\* seen_dm_ids after the handler has inserted a new id
SeenAfterInsert(seen, id) ==
    IF Cardinality(seen \cup {id}) > SeenDmCap THEN {} ELSE seen \cup {id}

RECURSIVE SumOver(_, _)
SumOver(f, S) ==
    IF S = {} THEN 0
    ELSE LET x == CHOOSE y \in S : TRUE IN f[x] + SumOver(f, S \ {x})

\* how many direct messages the event loop has persisted so far
Processed == SumOver(dm_appends, DmIds)

OnDirectMessage(topic, dm) ==
    /\ node_running
    /\ topic \in subscriptions
    /\ Processed < MaxProcessed
    /\ sent' = <<>>
    /\ logged' = <<>>
    /\ IF dm.to_peer # LocalPeer \/ dm.id \in seen_dm_ids
       THEN \* not addressed to us, or a duplicate: nothing happens
            /\ emitted' = <<>>
            /\ UNCHANGED <<loopVars, dmVars, dirVars, syncVars, cmdVars, peerVars, relayVars, resetVars,
                           handlerVars, queryVars, swarmVars, stopVars, netVars>>
       ELSE LET conv == dm_conversation_id(dm.from_peer, dm.to_peer)
                stored == append_dm_message(conv, dm)
                \* load_dm_conversation after the append: the row exists
                existing == stored.conversations[conv]
                meta == [peer_id |-> dm.from_peer,
                         display_name |-> dm.from_display_name,
                         last_message_time |-> dm.timestamp,
                         unread_count |-> existing.unread_count + 1]
            IN  /\ seen_dm_ids' = SeenAfterInsert(seen_dm_ids, dm.id)
                /\ subscriptions' =
                      IF IsInboxTopic(topic)
                      THEN subscriptions \cup {topic_for_dm(dm.from_peer, dm.to_peer)}
                      ELSE subscriptions
                /\ dm_messages' = stored.messages
                /\ dm_message_fts' = stored.fts
                /\ dm_conversations' =
                      save_dm_conversation(stored.conversations, conv, meta)
                /\ emitted' = <<[kind |-> "DMReceived", id |-> dm.id,
                                 peer_id |-> dm.from_peer]>>
                /\ dm_appends' = [dm_appends EXCEPT ![dm.id] = @ + 1]
                /\ UNCHANGED <<node_running, fts_enabled, dirVars, syncVars, cmdVars, peerVars, relayVars,
                               resetVars, handlerVars, queryVars, swarmVars, stopVars,
                               netVars>>

(***************************************************************************)
(* Command API: send_dm (commands/dm.rs).                                  *)
(***************************************************************************)
send_dm(peer, now) ==
    LET msg == DirectMessage(LocalPeer, peer, now)
        conv == dm_conversation_id(LocalPeer, peer)
        stored == append_dm_message(conv, msg)
        existing == stored.conversations[conv]
        meta == [peer_id |-> peer,
                 display_name |-> existing.display_name,
                 last_message_time |-> now,
                 unread_count |-> existing.unread_count]
    IN  /\ IdentityLoaded
        /\ dm_messages' = stored.messages
        /\ dm_message_fts' = stored.fts
        /\ dm_conversations' = save_dm_conversation(stored.conversations, conv, meta)
        /\ sent' = IF node_running
                   THEN <<[cmd |-> "SendMessage", topic |-> topic_for_dm(LocalPeer, peer)],
                          [cmd |-> "SendMessage", topic |-> topic_for_dm_inbox(peer)],
                          [cmd |-> "DiscoverRendezvous", topic |-> "dusk/peer/" \o peer]>>
                   ELSE <<>>
        /\ emitted' = <<>>
        /\ logged' = <<>>
        /\ UNCHANGED <<loopVars, fts_enabled, dm_appends, dirVars, syncVars, cmdVars, peerVars,
                       relayVars, resetVars, handlerVars, queryVars, swarmVars, stopVars,
                       netVars>>

(***************************************************************************)
(* Identity keys and signatures (protocol/identity.rs, verification/).     *)
(***************************************************************************)
\* the ed25519 keypairs of the remote peers
Keys == {"k1", "k2"}
\* PeerId::from(keypair.public())
PeerIdOf == [k \in Keys |-> IF k = "k1" THEN "p1" ELSE "p2"]
KeyOf == [p \in RemotePeers |-> CHOOSE k \in Keys : PeerIdOf[k] = p]
\* hex::encode(keypair.public().encode_protobuf())
PublicKeyHex == [k \in Keys |-> "080112" \o k]
\* a public_key string that is no hex string, and one that is hex but no key
NotHex == "zz"
NotAKey == "00"
PublicKeyStrings == {PublicKeyHex[k] : k \in Keys} \cup {NotHex, NotAKey}

\* hex::decode, then PublicKey::try_decode_protobuf: <<key>>, or <<>> on Err
DecodePublicKey(public_key_hex) ==
    IF \E k \in Keys : PublicKeyHex[k] = public_key_hex
    THEN <<CHOOSE k \in Keys : PublicKeyHex[k] = public_key_hex>>
    ELSE <<>>

\* hex::encode(keypair.sign(payload)): only the holder of the key can make it
Sign(key, payload) == [hex |-> TRUE, signer |-> key, payload |-> payload]
\* a signature string that hex::decode rejects
MalformedSignature == [hex |-> FALSE, signer |-> "", payload |-> ""]
\* the empty string sign_announcement returns when signing fails
EmptySignature == [hex |-> TRUE, signer |-> "", payload |-> ""]

\* public_key.verify(payload, sig_bytes)
SigVerify(key, payload, sig) == sig.signer = key /\ sig.payload = payload

announcement_sign_payload(peer_id, display_name, bio, public_key, timestamp, metrics_hash) ==
    "dusk-announce||" \o peer_id \o "||" \o display_name \o "||" \o bio \o "||"
       \o public_key \o "||" \o ToString(timestamp) \o "||" \o metrics_hash

revocation_sign_payload(peer_id, public_key, timestamp) ==
    "dusk-revoke||" \o peer_id \o "||" \o public_key \o "||" \o ToString(timestamp)

\* verification_proof is an Option: <<>> is None, <<proof>> is Some(proof)
NoProof == <<>>
SomeProof == <<[metrics_hash |-> "mh"]>>

MetricsHashOf(a) ==
    IF a.verification_proof = NoProof THEN "" ELSE a.verification_proof[1].metrics_hash

AnnouncementPayloadOf(a) ==
    announcement_sign_payload(a.peer_id, a.display_name, a.bio, a.public_key,
                              a.timestamp, MetricsHashOf(a))

RevocationPayloadOf(r) == revocation_sign_payload(r.peer_id, r.public_key, r.timestamp)

sign_announcement(key, a) == Sign(key, AnnouncementPayloadOf(a))

sign_revocation(key, r) == Sign(key, RevocationPayloadOf(r))

\* a mutation of verify_announcement: the key and the signature are decoded,
\* the signature is not verified
verify_announcement_decode_only(public_key_hex, a) ==
    DecodePublicKey(public_key_hex) # <<>> /\ a.signature.hex

verify_announcement(public_key_hex, a) ==
    LET pk == DecodePublicKey(public_key_hex)
    IN  /\ pk # <<>>
        /\ a.signature.hex
        /\ SigVerify(pk[1], AnnouncementPayloadOf(a), a.signature)

\* a mutation of verify_revocation: the key and the signature are decoded,
\* the signature is not verified
verify_revocation_decode_only(public_key_hex, r) ==
    DecodePublicKey(public_key_hex) # <<>> /\ r.signature.hex

verify_revocation(public_key_hex, r) ==
    LET pk == DecodePublicKey(public_key_hex)
    IN  /\ pk # <<>>
        /\ r.signature.hex
        /\ SigVerify(pk[1], RevocationPayloadOf(r), r.signature)

(***************************************************************************)
(* The gossip messages about profiles a remote peer can publish: any       *)
(* fields, with a signature made with any remote key over these fields or  *)
(* over a variant of them, or with no usable signature.                    *)
(***************************************************************************)
DisplayNames == {NameOf[p] : p \in RemotePeers}

WithSignature(body, sig) ==
    [f \in DOMAIN body \cup {"signature"} |-> IF f = "signature" THEN sig ELSE body[f]]

AnnouncementBodies ==
    [peer_id : RemotePeers, display_name : DisplayNames, bio : {"hi"},
     public_key : PublicKeyStrings, timestamp : Timestamps,
     verification_proof : {NoProof, SomeProof}]

\* the fields themselves, and the same fields under another peer's id or name
AnnouncementVariants(b) ==
    {[b EXCEPT !.peer_id = q] : q \in RemotePeers}
       \cup {[b EXCEPT !.display_name = n] : n \in DisplayNames}

Announcements ==
    UNION {{WithSignature(b, sig) :
               sig \in {sign_announcement(k, c) : k \in Keys, c \in AnnouncementVariants(b)}
                          \cup {MalformedSignature, EmptySignature}} :
           b \in AnnouncementBodies}

RevocationBodies ==
    [peer_id : RemotePeers, public_key : PublicKeyStrings, timestamp : Timestamps]

\* the fields themselves, and the same fields under another peer's id
RevocationVariants(b) == {[b EXCEPT !.peer_id = q] : q \in RemotePeers}

Revocations ==
    UNION {{WithSignature(b, sig) :
               sig \in {sign_revocation(k, c) : k \in Keys, c \in RevocationVariants(b)}
                          \cup {MalformedSignature, EmptySignature}} :
           b \in RevocationBodies}

\* GossipMessage::ProfileAnnounce(a) and GossipMessage::ProfileRevoke(r)
ProfileAnnounce(a) == [type |-> "ProfileAnnounce", body |-> a]
ProfileRevoke(r) == [type |-> "ProfileRevoke", body |-> r]

ProfileGossip ==
    {ProfileAnnounce(a) : a \in Announcements} \cup {ProfileRevoke(r) : r \in Revocations}

(***************************************************************************)
(* Storage: the directory table.                                           *)
(***************************************************************************)
\* INSERT ... ON CONFLICT(peer_id) DO UPDATE of every column
save_directory_entry(dir, entry) ==
    [k \in DOMAIN dir \cup {entry.peer_id} |-> IF k = entry.peer_id THEN entry ELSE dir[k]]

\* DELETE FROM directory WHERE peer_id = ?
remove_directory_entry(dir, peer_id) == [k \in DOMAIN dir \ {peer_id} |-> dir[k]]

\* UPDATE directory SET is_friend = ?; Err (and no change) when no row matches
set_friend_status(dir, peer_id, is_friend) ==
    IF peer_id \in DOMAIN dir
    THEN [dir EXCEPT ![peer_id].is_friend = is_friend]
    ELSE dir

\* a mutation of PriorIsFriend: the flag is not carried over
NeverFriend(dir, peer_id) == FALSE

\* load_directory().get(peer_id).map(|e| e.is_friend).unwrap_or(false)
PriorIsFriend(dir, peer_id) ==
    IF peer_id \in DOMAIN dir THEN dir[peer_id].is_friend ELSE FALSE

(***************************************************************************)
(* Event loop: ProfileAnnounce and ProfileRevoke (node/mod.rs).            *)
(***************************************************************************)
ProfileReceived(a) ==
    [kind |-> "ProfileReceived", peer_id |-> a.peer_id, display_name |-> a.display_name,
     bio |-> a.bio, public_key |-> a.public_key]

ProfileRevoked(r) == [kind |-> "ProfileRevoked", peer_id |-> r.peer_id]

\* the swarm hands the loop a message a remote peer published on a subscribed topic
GossipDeliver(m) ==
    /\ node_running
    /\ topic_for_directory \in subscriptions
    /\ gossip_in = <<>>
    /\ gossip_in' = <<m>>
    /\ emitted' = <<>>
    /\ logged' = <<>>
    /\ sent' = <<>>
    /\ UNCHANGED <<loopVars, dmVars, directory, syncVars, cmdVars, peerVars, relayVars, resetVars,
                   handlerVars, queryVars, swarmVars, stopVars, netVars>>

\* the message the loop is handling has the given type
Handling(type) == gossip_in # <<>> /\ gossip_in[1].type = type

OnProfileAnnounce ==
    /\ Handling("ProfileAnnounce")
    /\ gossip_in' = <<>>
    /\ sent' = <<>>
    /\ LET a == gossip_in[1].body
       IN  IF ~verify_announcement(a.public_key, a)
           THEN /\ logged' = <<"rejected unsigned/invalid profile from " \o a.peer_id>>
                /\ emitted' = <<>>
                /\ UNCHANGED directory
           ELSE IF a.verification_proof = NoProof
           THEN /\ logged' = <<"rejected unverified profile from " \o a.peer_id>>
                /\ emitted' = <<>>
                /\ UNCHANGED directory
           ELSE /\ directory' = save_directory_entry(directory,
                                    [peer_id |-> a.peer_id,
                                     display_name |-> a.display_name,
                                     bio |-> a.bio,
                                     public_key |-> a.public_key,
                                     last_seen |-> a.timestamp,
                                     is_friend |-> PriorIsFriend(directory, a.peer_id)])
                /\ emitted' = <<ProfileReceived(a)>>
                /\ logged' = <<>>
    /\ UNCHANGED <<loopVars, dmVars, syncVars, cmdVars, peerVars, relayVars, resetVars,
                   handlerVars, queryVars, swarmVars, stopVars, netVars>>

OnProfileRevoke ==
    /\ Handling("ProfileRevoke")
    /\ gossip_in' = <<>>
    /\ sent' = <<>>
    /\ LET r == gossip_in[1].body
       IN  IF ~verify_revocation(r.public_key, r)
           THEN /\ logged' = <<"rejected unsigned revocation for " \o r.peer_id>>
                /\ emitted' = <<>>
                /\ UNCHANGED directory
           ELSE /\ directory' = remove_directory_entry(directory, r.peer_id)
                /\ emitted' = <<ProfileRevoked(r)>>
                /\ logged' = <<>>
    /\ UNCHANGED <<loopVars, dmVars, syncVars, cmdVars, peerVars, relayVars, resetVars,
                   handlerVars, queryVars, swarmVars, stopVars, netVars>>

(***************************************************************************)
(* Command API: add_friend, remove_friend (commands/identity.rs).          *)
(***************************************************************************)
add_friend(peer_id) ==
    /\ directory' = set_friend_status(directory, peer_id, TRUE)
    /\ emitted' = <<>>
    /\ logged' = <<>>
    /\ sent' = <<>>
    /\ UNCHANGED <<loopVars, dmVars, gossip_in, syncVars, cmdVars, peerVars, relayVars, resetVars,
                   handlerVars, queryVars, swarmVars, stopVars, netVars>>

remove_friend(peer_id) ==
    /\ directory' = set_friend_status(directory, peer_id, FALSE)
    /\ emitted' = <<>>
    /\ logged' = <<>>
    /\ sent' = <<>>
    /\ UNCHANGED <<loopVars, dmVars, gossip_in, syncVars, cmdVars, peerVars, relayVars, resetVars,
                   handlerVars, queryVars, swarmVars, stopVars, netVars>>

(***************************************************************************)
(* The state after first launch: an identity exists, the storage is empty  *)
(* and start_node has run (commands/chat.rs).                              *)
(***************************************************************************)
InitStorageEmpty ==
    /\ seen_dm_ids = {}
    /\ subscriptions = {topic_for_sync, topic_for_directory, topic_for_dm_inbox(LocalPeer)}
    /\ node_running = TRUE
    /\ emitted = <<>>
    /\ logged = <<>>
    /\ sent = <<>>
    /\ dm_messages = {}
    /\ dm_conversations = EmptyTable
    /\ dm_message_fts = {}
    /\ dm_appends = [i \in DmIds |-> 0]
    /\ directory = EmptyTable
    /\ gossip_in = <<>>
    /\ documents = EmptyTable
    /\ pending_join_role_guard = {}
    /\ published = {}
    /\ awaiting_first_merge = {}
    /\ left_communities = {}
    /\ network = [p \in {LocalPeer, "p1"} |-> <<>>]
    /\ peer_guard = {}
    /\ stop_requested = FALSE
    /\ connected_peers = {}
    /\ established = [p \in RemotePeers |-> 0]
    /\ channel_messages = <<>>
    /\ fetched = <<>>
    /\ meta_created_by = <<>>
    /\ call = <<>>
    /\ locks = [l \in {"identity", "crdt_engine", "node_handle", "voice_channels"} |-> "free"]
    /\ command_queue = 0
    /\ loop_at = "select"
    /\ settings = [status |-> "online", display_name |-> NameOf[LocalPeer],
                   custom_relay_addr |-> "default", profile_name |-> NameOf[LocalPeer]]
    /\ voice_channels = EmptyTable
    /\ calls_made = 0
    /\ identity = <<LocalPeer>>
    /\ key_value = {"identity_keypair"}
    /\ app_meta = {"legacy_migrated"}
    /\ unloaded_documents = {}
    /\ community_meta = {}
    /\ reset_pending = FALSE
    /\ clock = 0
    /\ relay_link = "unstarted"
    /\ relay_dials = 0
    /\ relay_reservation_active = FALSE
    /\ relay_backoff_secs = 0
    /\ relay_warn_at = <<>>
    /\ relay_retry_at = <<>>
    /\ rendezvous_tick = 0
    /\ pending_registrations = <<>>
    /\ pending_discoveries = <<>>
    /\ pending_queued_at = <<>>
    /\ registered_namespaces = {}
    /\ rendezvous_calls = <<>>
    /\ scheduled = <<>>
    /\ outage_since = <<>>
    /\ last_queued_at = 0
    /\ registering = {}
    /\ unregistered = {}
    /\ peer_documents = EmptyTable
    /\ known = [p \in {LocalPeer, "p1"} |-> {}]
    /\ returned = ""
    /\ kick_pending = <<>>
    /\ actor_high \in [created : BOOLEAN, placeholder : BOOLEAN]

(***************************************************************************)
(* SpecDm: direct messages.                                                *)
(***************************************************************************)
\* DiskStorage::open may or may not get the FTS5 table created
InitDm ==
    /\ InitStorageEmpty
    /\ fts_enabled \in BOOLEAN
    /\ frontend = "tauri"
    /\ actor_high.created /\ ~actor_high.placeholder

NextDm ==
    \/ \E topic \in DmTopics, dm \in DirectMessages : OnDirectMessage(topic, dm)
    \/ \E peer \in RemotePeers, now \in Timestamps : send_dm(peer, now)

SpecDm == InitDm /\ [][NextDm]_vars

(***************************************************************************)
(* Claims about direct messages (checked under SpecDm).                    *)
(***************************************************************************)
\* the handler reaches its persisting branch for dm
DmAccepted(dm) == dm.to_peer = LocalPeer /\ dm.id \notin seen_dm_ids

\* how many entries of load_dm_messages(conv, None, 50) carry the id
EntriesWithId(conv, id) ==
    LET page == load_dm_messages(dm_messages, conv, 0, DmPageLimit)
    IN  Cardinality({k \in 1..Len(page) : page[k].id = id})

\* C1: the event loop processes each distinct direct-message id at most once:
\* over a whole run it calls append_dm_message (and with it increments
\* unread_count and emits DMReceived) at most once per id.
C1_EachDmProcessedAtMostOnce == \A i \in DmIds : dm_appends[i] <= 1

\* C2: after every append_dm_message(conv, msg) call, whoever makes it (send_dm
\* or the event loop) and however often the id was appended before,
\* load_dm_messages(conv, None, 50) holds exactly one entry with msg.id and the
\* conversation row of conv exists.
C2_AppendLeavesExactlyOneEntry ==
    [][ /\ \A peer \in RemotePeers, now \in Timestamps :
            send_dm(peer, now) =>
               /\ EntriesWithId(dm_conversation_id(LocalPeer, peer), DmId(LocalPeer, now))' = 1
               /\ dm_conversation_id(LocalPeer, peer) \in DOMAIN dm_conversations'
        /\ \A topic \in DmTopics, dm \in DirectMessages :
            (DmAccepted(dm) /\ OnDirectMessage(topic, dm)) =>
               /\ EntriesWithId(dm_conversation_id(dm.from_peer, dm.to_peer), dm.id)' = 1
               /\ dm_conversation_id(dm.from_peer, dm.to_peer) \in DOMAIN dm_conversations'
      ]_vars

(***************************************************************************)
(* SpecDir: the peer directory.                                            *)
(***************************************************************************)
InitDir ==
    /\ InitStorageEmpty
    /\ fts_enabled = TRUE
    /\ frontend = "tauri"
    /\ actor_high.created /\ ~actor_high.placeholder

NextDir ==
    \/ \E m \in ProfileGossip : GossipDeliver(m)
    \/ OnProfileAnnounce
    \/ OnProfileRevoke
    \/ \E p \in RemotePeers : add_friend(p)
    \/ \E p \in RemotePeers : remove_friend(p)

SpecDir == InitDir /\ [][NextDir]_vars

(***************************************************************************)
(* Claims about the directory (checked under SpecDir).                     *)
(***************************************************************************)
\* the announcement is what sign_announcement makes of its fields with the
\* key its public_key field encodes
GenuineAnnouncement(a) ==
    \E k \in Keys : PublicKeyHex[k] = a.public_key /\ a.signature = sign_announcement(k, a)

\* the revocation is what sign_revocation makes of its fields with the key
\* its public_key field encodes
GenuineRevocation(r) ==
    \E k \in Keys : PublicKeyHex[k] = r.public_key /\ r.signature = sign_revocation(k, r)

C4_BadAnnounceRejected ==
    [][ (/\ OnProfileAnnounce
         /\ \/ ~GenuineAnnouncement(gossip_in[1].body)
            \/ gossip_in[1].body.verification_proof = NoProof) =>
          /\ directory' = directory
          /\ emitted' = <<>>
      ]_vars

\* C4 witness: an announcement has just been rejected while the directory
\* holds an entry of the peer it names
C4_Witness ==
    /\ logged # <<>>
    /\ \E p \in DOMAIN directory :
          logged[1] \in {"rejected unsigned/invalid profile from " \o p,
                         "rejected unverified profile from " \o p}

\* C5: a ProfileRevoke removes the entry of revocation.peer_id and emits
\* ProfileRevoked if and only if its signature verifies; otherwise the
\* directory is unchanged and no event is emitted.
C5_RevokeIffSignatureVerifies ==
    [][ OnProfileRevoke =>
          LET r == gossip_in[1].body
          IN  IF GenuineRevocation(r)
              THEN /\ directory' = [k \in DOMAIN directory \ {r.peer_id} |-> directory[k]]
                   /\ emitted' = <<ProfileRevoked(r)>>
              ELSE /\ directory' = directory
                   /\ emitted' = <<>>
      ]_vars

\* C5 witness: a revocation has just removed an entry while another entry stays
C5_Witness ==
    /\ emitted # <<>>
    /\ emitted[1].kind = "ProfileRevoked"
    /\ emitted[1].peer_id \notin DOMAIN directory
    /\ directory # EmptyTable

\* C6: a ProfileRevoke naming peer P removes P's directory entry only if it
\* is signed with P's own key: the key P's peer id derives from, or the key
\* P's entry holds.
C6_RevokedOnlyByOwnKey ==
    [][ (OnProfileRevoke /\ gossip_in[1].body.peer_id \in DOMAIN directory
                         /\ gossip_in[1].body.peer_id \notin DOMAIN directory') =>
          LET r == gossip_in[1].body
          IN  \/ verify_revocation(PublicKeyHex[KeyOf[r.peer_id]], r)
              \/ verify_revocation(directory[r.peer_id].public_key, r)
      ]_vars

(***************************************************************************)
(* Community documents (crdt/document.rs, crdt/mod.rs).                    *)
(* An Automerge document is the set of changes it has seen, and a merge is *)
(* the union of two such sets.  init_community_doc puts a fresh "members"  *)
(* map at the root, so two documents initialised independently for the     *)
(* same community carry two members maps; after a merge the one whose      *)
(* operation id is greater is the visible one.  Both puts have the same    *)
(* counter, so the (random) actor ids decide.  A document is modelled by   *)
(* the initialisations it contains and by what happened to the member row  *)
(* each of them wrote.  The elements inserted into the message list of the *)
(* default channel are kept with the replica that inserted them, and the   *)
(* deleted ones are remembered: a merge is the union of both.              *)
(***************************************************************************)
CommunityIds == {"c1"}
\* the peers that initialise documents: the local one and one remote
Creators == {LocalPeer, "p1"}
\* the row of a creator is "absent" (that initialisation is not in the document),
\* the role it holds, or "removed" (the row was deleted); later changes to a row
\* win over earlier ones, and a deleted row stays deleted
StatusRank == [s \in {"absent", "owner", "admin", "member", "removed"} |->
                 CASE s = "absent" -> 0 [] s = "owner" -> 1 [] s = "admin" -> 2
                   [] s = "member" -> 3 [] OTHER -> 4]
\* the other peer: the one a members map can hold a row for next to its creator
Other(peer_id) == CHOOSE q \in Creators : q # peer_id
\* the keys a channels map can have, in the order doc.keys() yields them
ChannelKeys == <<"ch_a", "ch_b", "ch_general">>

\* the channel "general" every initialisation makes
GeneralOf(root) == [root |-> root, actor |-> root, id |-> "ch_general", position |-> 0]

init_community_doc(created_by) ==
    [rows |-> [p \in Creators |-> IF p = created_by THEN "owner" ELSE "absent"],
     guests |-> [p \in Creators |-> "absent"],
     placeholder |-> FALSE,
     channels |-> {GeneralOf(created_by)},
     messages |-> {}, deleted |-> {}]

\* the snapshots with one member row for each initialisation, the default
\* channels and no messages
CommunityDocs ==
    {[rows |-> rows, guests |-> [p \in Creators |-> "absent"], placeholder |-> ph,
      channels |-> {GeneralOf(p) : p \in {q \in Creators : rows[q] # "absent"}}
                      \cup (IF ph THEN {GeneralOf("placeholder")} ELSE {}),
      messages |-> {}, deleted |-> {}] :
        rows \in [Creators -> {"absent", "owner", "member", "removed"}], ph \in BOOLEAN}
      \ {[rows |-> [p \in Creators |-> "absent"], guests |-> [p \in Creators |-> "absent"],
          placeholder |-> FALSE, channels |-> {}, messages |-> {}, deleted |-> {}]}

\* mutation of merge: a member row the local document has is kept as it is
merge_local_rows_kept(local_doc, remote_doc) ==
    [rows |-> [p \in Creators |->
                 IF local_doc.rows[p] # "absent" THEN local_doc.rows[p] ELSE remote_doc.rows[p]],
     guests |-> [p \in Creators |->
                 IF local_doc.guests[p] # "absent"
                 THEN local_doc.guests[p] ELSE remote_doc.guests[p]],
     placeholder |-> local_doc.placeholder \/ remote_doc.placeholder,
     channels |-> local_doc.channels \cup remote_doc.channels,
     messages |-> local_doc.messages \cup remote_doc.messages,
     deleted |-> local_doc.deleted \cup remote_doc.deleted]

\* AutoCommit::merge
merge(local_doc, remote_doc) ==
    [rows |-> [p \in Creators |->
                 IF StatusRank[local_doc.rows[p]] >= StatusRank[remote_doc.rows[p]]
                 THEN local_doc.rows[p] ELSE remote_doc.rows[p]],
     guests |-> [p \in Creators |->
                 IF StatusRank[local_doc.guests[p]] >= StatusRank[remote_doc.guests[p]]
                 THEN local_doc.guests[p] ELSE remote_doc.guests[p]],
     placeholder |-> local_doc.placeholder \/ remote_doc.placeholder,
     channels |-> local_doc.channels \cup remote_doc.channels,
     messages |-> local_doc.messages \cup remote_doc.messages,
     deleted |-> local_doc.deleted \cup remote_doc.deleted]

\* the initialisations a document contains
RootsOf(doc) ==
    {p \in Creators : doc.rows[p] # "absent"}
        \cup (IF doc.placeholder THEN {"placeholder"} ELSE {})

\* the order of the actor ids of the initialisations: the remote one is in the
\* middle, the local ones above or below it as actor_high says
ActorRank(root) ==
    CASE root = "placeholder" -> IF actor_high.placeholder THEN 3 ELSE 0
      [] root = LocalPeer -> IF actor_high.created THEN 4 ELSE 1
      [] OTHER -> 2

\* doc.get(ROOT, "members"): the members map that is visible
MembersRoot(doc) ==
    CHOOSE root \in RootsOf(doc) :
        \A other \in RootsOf(doc) : ActorRank(other) <= ActorRank(root)

\* document::set_member_role: replaces the roles list of a member; fails if
\* peer_id has no row in the visible members map
document_set_member_role(doc, peer_id, roles) ==
    LET root == MembersRoot(doc)
    IN  IF root = peer_id /\ doc.rows[peer_id] # "removed"
        THEN [ok |-> TRUE, doc |-> [doc EXCEPT !.rows[peer_id] = roles[1]]]
        ELSE IF root \in Creators /\ Other(root) = peer_id
                /\ doc.guests[root] \notin {"absent", "removed"}
             THEN [ok |-> TRUE, doc |-> [doc EXCEPT !.guests[root] = roles[1]]]
             ELSE [ok |-> FALSE, doc |-> doc]

(***************************************************************************)
(* CrdtEngine (crdt/mod.rs): the documents by community id.                *)
(***************************************************************************)
\* mutation of has_community: every community counts as loaded
has_community_always(docs, community_id) == TRUE

has_community(docs, community_id) == community_id \in DOMAIN docs

\* documents.insert(community_id, doc)
insert_doc(docs, community_id, doc) ==
    [c \in DOMAIN docs \cup {community_id} |-> IF c = community_id THEN doc ELSE docs[c]]

create_community(docs, community_id, created_by) ==
    insert_doc(docs, community_id, init_community_doc(created_by))

\* the same structure as create_community makes, without a member row
create_placeholder_community(docs, community_id) ==
    insert_doc(docs, community_id,
              [rows |-> [p \in Creators |-> "absent"],
               guests |-> [p \in Creators |-> "absent"], placeholder |-> TRUE,
               channels |-> {GeneralOf("placeholder")}, messages |-> {}, deleted |-> {}])

remove_community(docs, community_id) ==
    [c \in DOMAIN docs \ {community_id} |-> docs[c]]

\* the rows of the visible members map; Err("community not found") is the
\* empty list of every caller
get_members(docs, community_id) ==
    IF community_id \notin DOMAIN docs
    THEN {}
    ELSE LET doc == docs[community_id]
             root == MembersRoot(doc)
         IN  IF root = "placeholder"
             THEN {}
             ELSE {[peer_id |-> root, roles |-> <<doc.rows[root]>>] :
                      x \in IF doc.rows[root] = "removed" THEN {} ELSE {root}}
                  \cup {[peer_id |-> Other(root), roles |-> <<doc.guests[root]>>] :
                           x \in IF doc.guests[root] \in {"absent", "removed"}
                                 THEN {} ELSE {root}}

\* deletes the key peer_id of the visible members map
remove_member(docs, community_id, peer_id) ==
    IF community_id \notin DOMAIN docs
    THEN docs
    ELSE LET root == MembersRoot(docs[community_id])
         IN  IF root = peer_id
             THEN [docs EXCEPT ![community_id].rows[peer_id] = "removed"]
             ELSE IF root \in Creators /\ Other(root) = peer_id
                     /\ docs[community_id].guests[root] # "absent"
                  THEN [docs EXCEPT ![community_id].guests[root] = "removed"]
                  ELSE docs

set_member_role(docs, community_id, peer_id, roles) ==
    IF community_id \in DOMAIN docs
       /\ document_set_member_role(docs[community_id], peer_id, roles).ok
    THEN [ok |-> TRUE,
          documents |-> [docs EXCEPT ![community_id] =
                            document_set_member_role(@, peer_id, roles).doc]]
    ELSE [ok |-> FALSE, documents |-> docs]

\* the channels of the visible channels map: of the values put at one key, the
\* one whose operation id is greater
VisibleChannels(doc) ==
    LET put == {v \in doc.channels : v.root = MembersRoot(doc)}
    IN  {v \in put : \A w \in put : w.id = v.id => ActorRank(w.actor) <= ActorRank(v.actor)}

\* document::add_channel for a channel with position 0: the next free position
add_channel(doc, actor, channel_id) ==
    LET positions == {v.position : v \in VisibleChannels(doc)}
        position == IF positions = {} THEN 0
                    ELSE 1 + CHOOSE p \in positions : \A q \in positions : q <= p
    IN  [doc EXCEPT !.channels = @ \cup {[root |-> MembersRoot(doc), actor |-> actor,
                                          id |-> channel_id, position |-> position]}]

\* result.sort_by_key(|c| c.position): a stable sort
RECURSIVE sort_by_key_position(_, _)
sort_by_key_position(result, position) ==
    IF position > Len(ChannelKeys)
    THEN <<>>
    ELSE SelectSeq(result, LAMBDA c : c.position = position)
             \o sort_by_key_position(result, position + 1)

\* document::get_channels: the channels in key order, then sorted by position
document_get_channels(doc) ==
    LET visible == VisibleChannels(doc)
        keys == SelectSeq(ChannelKeys, LAMBDA k : \E v \in visible : v.id = k)
        result == [i \in DOMAIN keys |->
                     LET v == CHOOSE w \in visible : w.id = keys[i]
                     IN  [id |-> v.id, position |-> v.position]]
    IN  sort_by_key_position(result, 0)

\* the ids of the channels of a community; Err("community not found") is the
\* empty list of every caller
get_channels(docs, community_id) ==
    IF community_id \in DOMAIN docs
    THEN {v.id : v \in VisibleChannels(docs[community_id])}
    ELSE {}

\* CrdtEngine::create_channel, run by the engine of actor
create_channel(docs, community_id, actor, channel_id) ==
    IF community_id \in DOMAIN docs
    THEN [docs EXCEPT ![community_id] = add_channel(@, actor, channel_id)]
    ELSE docs

\* doc.save(): the bytes of a snapshot; AutoCommit::load accepts them
get_doc_bytes(docs, community_id) == [loads |-> TRUE, doc |-> docs[community_id]]

\* bytes AutoCommit::load rejects
GarbageBytes == [loads |-> FALSE, doc |-> init_community_doc("p1")]

\* mutation of merge_remote_doc: bytes that do not load are merged all the same
merge_remote_doc_load_unchecked(docs, community_id, remote_bytes) ==
    IF community_id \in DOMAIN docs
    THEN [ok |-> remote_bytes.loads,
          documents |-> [docs EXCEPT ![community_id] = merge(@, remote_bytes.doc)]]
    ELSE [ok |-> remote_bytes.loads,
          documents |-> insert_doc(docs, community_id, remote_bytes.doc)]

\* mutation of merge_remote_doc: a community that is not loaded is refused
merge_remote_doc_known_only(docs, community_id, remote_bytes) ==
    IF ~remote_bytes.loads \/ community_id \notin DOMAIN docs
    THEN [ok |-> FALSE, documents |-> docs]
    ELSE [ok |-> TRUE,
          documents |-> [docs EXCEPT ![community_id] = merge(@, remote_bytes.doc)]]

merge_remote_doc(docs, community_id, remote_bytes) ==
    IF ~remote_bytes.loads
    THEN [ok |-> FALSE, documents |-> docs]
    ELSE IF community_id \in DOMAIN docs
         THEN [ok |-> TRUE,
               documents |-> [docs EXCEPT ![community_id] = merge(@, remote_bytes.doc)]]
         ELSE [ok |-> TRUE, documents |-> insert_doc(docs, community_id, remote_bytes.doc)]

\* a member row of the local peer with role owner or admin
local_has_elevated_role(docs, community_id) ==
    \E member \in get_members(docs, community_id) :
        /\ member.peer_id = LocalPeer
        /\ \E i \in DOMAIN member.roles : member.roles[i] \in {"owner", "admin"}

(***************************************************************************)
(* Community topics (node/gossip.rs) and the sync messages (crdt/sync.rs). *)
(***************************************************************************)
topic_for_presence(community_id) == "dusk/community/" \o community_id \o "/presence"

topic_for_messages(community_id, channel_id) ==
    "dusk/community/" \o community_id \o "/channel/" \o channel_id \o "/messages"

topic_for_typing(community_id, channel_id) ==
    "dusk/community/" \o community_id \o "/channel/" \o channel_id \o "/typing"

\* the topics of the channels of a community
ChannelTopics(docs, community_id) ==
    UNION {{topic_for_messages(community_id, ch), topic_for_typing(community_id, ch)} :
              ch \in get_channels(docs, community_id)}

\* the community id a topic name carries: <<id>>, or <<>> for a topic outside dusk/community/
community_id_from_topic(topic) ==
    LET Named(c) == {topic_for_presence(c), topic_for_messages(c, "ch_general"),
                     topic_for_typing(c, "ch_general")}
    IN  IF \E c \in CommunityIds : topic \in Named(c)
        THEN <<CHOOSE c \in CommunityIds : topic \in Named(c)>>
        ELSE <<>>

DocumentOffer(community_id, doc_bytes) ==
    [type |-> "DocumentOffer", topic |-> topic_for_sync,
     body |-> [community_id |-> community_id, doc_bytes |-> doc_bytes]]

RequestSync(peer_id) ==
    [type |-> "RequestSync", topic |-> topic_for_sync, body |-> [peer_id |-> peer_id]]

MemberKicked(topic, peer_id) ==
    [type |-> "MemberKicked", topic |-> topic, body |-> [peer_id |-> peer_id]]

\* what remote peers may publish: any snapshot, loadable or not, for any community;
\* a sync request; a kick notice for either member on a presence or the directory topic
SyncTraffic ==
    {DocumentOffer(c, [loads |-> TRUE, doc |-> d]) : c \in CommunityIds, d \in CommunityDocs}
        \cup {DocumentOffer(c, GarbageBytes) : c \in CommunityIds}
        \cup {RequestSync("p1")}
        \cup {MemberKicked(t, p) :
                 t \in {topic_for_presence(c) : c \in CommunityIds} \cup {topic_for_directory},
                 p \in Creators}


(***************************************************************************)
(* Event loop: the sync topic and the kick notice (node/mod.rs).           *)
(***************************************************************************)
\* the swarm hands the loop a message published on a subscribed topic
SyncDeliver(m) ==
    /\ node_running
    /\ m.topic \in subscriptions
    /\ gossip_in = <<>>
    /\ gossip_in' = <<m>>
    /\ emitted' = <<>>
    /\ logged' = <<>>
    /\ sent' = <<>>
    /\ published' = {}
    /\ UNCHANGED <<loopVars, dmVars, directory, documents, pending_join_role_guard,
                   frontend, actor_high, awaiting_first_merge, left_communities, cmdVars,
                   peerVars, relayVars, resetVars, handlerVars, queryVars, swarmVars,
                   stopVars, netVars>>

\* RequestSync: offer a snapshot of every loaded community
OnRequestSync ==
    /\ Handling("RequestSync")
    /\ published' = {DocumentOffer(cid, get_doc_bytes(documents, cid)) : cid \in DOMAIN documents}
    /\ gossip_in' = <<>>
    /\ emitted' = <<>>
    /\ logged' = <<>>
    /\ sent' = <<>>
    /\ UNCHANGED <<loopVars, dmVars, directory, documents, pending_join_role_guard,
                   frontend, actor_high, awaiting_first_merge, left_communities, cmdVars,
                   peerVars, relayVars, resetVars, handlerVars, queryVars, swarmVars,
                   stopVars, netVars>>

OnDocumentOffer ==
    /\ Handling("DocumentOffer")
    /\ LET snapshot == gossip_in[1].body
           community_id == snapshot.community_id
       IN  IF ~has_community(documents, community_id)
           THEN /\ logged' = <<"ignoring document offer for unknown community " \o community_id>>
                /\ emitted' = <<>>
                /\ published' = {}
                /\ UNCHANGED <<documents, pending_join_role_guard, subscriptions,
                               awaiting_first_merge>>
           ELSE LET merge_result == merge_remote_doc(documents, community_id, snapshot.doc_bytes)
                    should_harden_join_role ==
                        merge_result.ok /\ community_id \in pending_join_role_guard
                    hardened ==
                        IF should_harden_join_role
                           /\ local_has_elevated_role(merge_result.documents, community_id)
                        THEN set_member_role(merge_result.documents, community_id,
                                             LocalPeer, <<"member">>)
                        ELSE [ok |-> FALSE, documents |-> merge_result.documents]
                    corrected_local_role == hardened.ok
                IN  /\ documents' = hardened.documents
                    /\ pending_join_role_guard' =
                          IF should_harden_join_role
                          THEN pending_join_role_guard \ {community_id}
                          ELSE pending_join_role_guard
                    /\ published' =
                          IF corrected_local_role
                          THEN {DocumentOffer(community_id,
                                              get_doc_bytes(hardened.documents, community_id))}
                          ELSE {}
                    /\ logged' =
                          IF ~merge_result.ok
                          THEN <<"failed to merge remote doc for " \o community_id>>
                          ELSE IF corrected_local_role
                               THEN <<"downgraded local elevated role to member during invite join sync for "
                                        \o community_id>>
                               ELSE <<>>
                    /\ subscriptions' =
                          IF merge_result.ok
                          THEN subscriptions \cup {topic_for_presence(community_id)}
                                 \cup ChannelTopics(hardened.documents, community_id)
                          ELSE subscriptions
                    /\ emitted' = IF merge_result.ok
                                  THEN <<[kind |-> "SyncComplete",
                                          community_id |-> community_id]>>
                                  ELSE <<>>
                    /\ awaiting_first_merge' =
                          IF merge_result.ok
                          THEN awaiting_first_merge \ {community_id}
                          ELSE awaiting_first_merge
    /\ gossip_in' = <<>>
    /\ sent' = <<>>
    /\ UNCHANGED <<seen_dm_ids, node_running, dmVars, directory, frontend, actor_high,
                   left_communities, cmdVars, peerVars, relayVars, resetVars, handlerVars,
                   queryVars, swarmVars, stopVars, netVars>>

\* MemberKicked: the named row is removed from the community the topic names
OnMemberKicked ==
    /\ Handling("MemberKicked")
    /\ LET community_id == community_id_from_topic(gossip_in[1].topic)
           peer_id == gossip_in[1].body.peer_id
       IN  /\ documents' = IF community_id # <<>>
                           THEN remove_member(documents, community_id[1], peer_id)
                           ELSE documents
           /\ emitted' = <<[kind |-> "MemberKicked", peer_id |-> peer_id]>>
    /\ gossip_in' = <<>>
    /\ logged' = <<>>
    /\ sent' = <<>>
    /\ published' = {}
    /\ UNCHANGED <<loopVars, dmVars, directory, pending_join_role_guard, frontend,
                   actor_high, awaiting_first_merge, left_communities, cmdVars, peerVars,
                   relayVars, resetVars, handlerVars, queryVars, swarmVars, stopVars,
                   netVars>>

(***************************************************************************)
(* Command API: communities.  The Tauri commands (commands/community.rs)   *)
(* and the dev server's handlers (dev_server.rs) drive the same engine and *)
(* the same event loop; one installation runs one of the two.  A Subscribe *)
(* or Unsubscribe command takes effect as it is enqueued.                  *)
(***************************************************************************)
\* the commands that (un)subscribe the channel topics of a community
ChannelCommands(cmd, docs, community_id) ==
    IF get_channels(docs, community_id) = {}
    THEN <<>>
    ELSE <<[cmd |-> cmd, topic |-> topic_for_messages(community_id, "ch_general")],
           [cmd |-> cmd, topic |-> topic_for_typing(community_id, "ch_general")]>>

\* create_community, the same code on both surfaces: the id is a hash of name,
\* creator and time, so it is one the engine does not hold
CreateCommunity(community_id) ==
    /\ IdentityLoaded
    /\ ~has_community(documents, community_id)
    /\ documents' = create_community(documents, community_id, LocalPeer)
    /\ community_meta' = IF community_id \in DOMAIN documents'
                         THEN community_meta \cup {community_id}
                         ELSE community_meta
    /\ subscriptions' = IF node_running
                        THEN subscriptions \cup {topic_for_presence(community_id)}
                               \cup ChannelTopics(documents', community_id)
                        ELSE subscriptions
    /\ sent' = IF node_running
               THEN <<[cmd |-> "Subscribe", topic |-> topic_for_presence(community_id)]>>
                      \o ChannelCommands("Subscribe", documents', community_id)
                      \o <<[cmd |-> "RegisterRendezvous", topic |-> "dusk/community/" \o community_id]>>
               ELSE <<>>
    /\ left_communities' = left_communities \ {community_id}
    /\ emitted' = <<>>
    /\ logged' = <<>>
    /\ published' = {}
    /\ UNCHANGED <<seen_dm_ids, node_running, dmVars, dirVars, pending_join_role_guard,
                   frontend, actor_high, awaiting_first_merge, cmdVars, peerVars,
                   relayVars, storedVars, handlerVars, queryVars, swarmVars, stopVars,
                   netVars>>

\* what both join handlers do once the document is there
JoinSubscribe(community_id, more) ==
    /\ subscriptions' = IF node_running
                        THEN subscriptions \cup {topic_for_presence(community_id)}
                               \cup ChannelTopics(documents', community_id)
                        ELSE subscriptions
    /\ sent' = IF node_running
               THEN <<[cmd |-> "Subscribe", topic |-> topic_for_presence(community_id)]>>
                      \o ChannelCommands("Subscribe", documents', community_id)
                      \o <<[cmd |-> "RegisterRendezvous", topic |-> "dusk/community/" \o community_id]>>
                      \o <<[cmd |-> "DiscoverRendezvous", topic |-> "dusk/community/" \o community_id]>>
                      \o more
               ELSE <<>>
    /\ awaiting_first_merge' = awaiting_first_merge \cup {community_id}
    /\ left_communities' = left_communities \ {community_id}

\* Tauri join_community: the invite names any community
JoinCommunity(community_id) ==
    /\ frontend = "tauri"
    /\ IdentityLoaded
    /\ documents' = IF ~has_community(documents, community_id)
                    THEN create_community(documents, community_id, LocalPeer)
                    ELSE documents
    /\ IF community_id \in DOMAIN documents'
       THEN JoinSubscribe(community_id, <<>>)
       ELSE UNCHANGED <<subscriptions, sent, awaiting_first_merge, left_communities>>
    /\ community_meta' = IF community_id \in DOMAIN documents'
                         THEN community_meta \cup {community_id}
                         ELSE community_meta
    /\ emitted' = <<>>
    /\ logged' = <<>>
    /\ published' = {}
    /\ UNCHANGED <<seen_dm_ids, node_running, dmVars, dirVars, pending_join_role_guard,
                   frontend, actor_high, cmdVars, peerVars, relayVars, storedVars,
                   handlerVars, queryVars, swarmVars, stopVars, netVars>>

\* dev server join_community
DevJoinCommunity(community_id) ==
    /\ frontend = "dev_server"
    /\ LET had_existing_doc == has_community(documents, community_id)
           placed == IF ~had_existing_doc
                     THEN create_placeholder_community(documents, community_id)
                     ELSE documents
       IN  documents' = IF had_existing_doc /\ local_has_elevated_role(placed, community_id)
                        THEN set_member_role(placed, community_id, LocalPeer,
                                             <<"member">>).documents
                        ELSE placed
    /\ IF community_id \in DOMAIN documents'
       THEN /\ pending_join_role_guard' = pending_join_role_guard \cup {community_id}
            /\ JoinSubscribe(community_id, <<[cmd |-> "SendMessage", topic |-> topic_for_sync]>>)
       ELSE UNCHANGED <<pending_join_role_guard, subscriptions, sent,
                        awaiting_first_merge, left_communities>>
    /\ community_meta' = IF community_id \in DOMAIN documents'
                         THEN community_meta \cup {community_id}
                         ELSE community_meta
    /\ emitted' = <<>>
    /\ logged' = <<>>
    /\ published' = {}
    /\ UNCHANGED <<seen_dm_ids, node_running, dmVars, dirVars, frontend, actor_high, cmdVars,
                   peerVars, relayVars, storedVars, handlerVars, queryVars, swarmVars,
                   stopVars, netVars>>

\* what both leave handlers enqueue for the topics of the community
LeaveUnsubscribe(community_id, more) ==
    /\ subscriptions' = IF node_running
                        THEN subscriptions \ ({topic_for_presence(community_id)}
                                                \cup ChannelTopics(documents, community_id))
                        ELSE subscriptions
    /\ sent' = IF node_running
               THEN ChannelCommands("Unsubscribe", documents, community_id)
                      \o <<[cmd |-> "Unsubscribe", topic |-> topic_for_presence(community_id)]>>
                      \o more
               ELSE <<>>
    /\ awaiting_first_merge' = awaiting_first_merge \ {community_id}
    /\ left_communities' = left_communities \cup {community_id}

\* Tauri leave_community
LeaveCommunity(community_id) ==
    /\ frontend = "tauri"
    /\ LeaveUnsubscribe(community_id, <<>>)
    /\ emitted' = <<>>
    /\ logged' = <<>>
    /\ published' = {}
    /\ UNCHANGED <<seen_dm_ids, node_running, dmVars, dirVars, documents,
                   pending_join_role_guard, frontend, actor_high, cmdVars, peerVars,
                   relayVars, resetVars, handlerVars, queryVars, swarmVars, stopVars,
                   netVars>>

\* dev server leave_community: the local row is removed and the result broadcast
\* before the document is dropped
DevLeaveCommunity(community_id) ==
    /\ frontend = "dev_server"
    /\ LET removed_self ==
               \E member \in get_members(documents, community_id) : member.peer_id = LocalPeer
           after_removal == IF removed_self
                            THEN remove_member(documents, community_id, LocalPeer)
                            ELSE documents
       IN  /\ LeaveUnsubscribe(community_id,
                               <<[cmd |-> "UnregisterRendezvous", topic |-> "dusk/community/" \o community_id]>>)
           /\ published' = IF removed_self /\ node_running
                           THEN {DocumentOffer(community_id,
                                               get_doc_bytes(after_removal, community_id))}
                           ELSE {}
           /\ documents' = remove_community(after_removal, community_id)
    /\ pending_join_role_guard' = pending_join_role_guard \ {community_id}
    /\ emitted' = <<>>
    /\ logged' = <<>>
    /\ UNCHANGED <<seen_dm_ids, node_running, dmVars, dirVars, frontend, actor_high, cmdVars,
                   peerVars, relayVars, resetVars, handlerVars, queryVars, swarmVars,
                   stopVars, netVars>>

(***************************************************************************)
(* SpecSync: community documents under the sync protocol.                  *)
(***************************************************************************)
\* the actor ids of the documents the local peer initialises are random
InitSync ==
    /\ InitStorageEmpty
    /\ fts_enabled = TRUE
    /\ frontend \in {"tauri", "dev_server"}

NextSync ==
    \/ \E m \in SyncTraffic : SyncDeliver(m)
    \/ OnRequestSync
    \/ OnDocumentOffer
    \/ OnMemberKicked
    \/ \E c \in CommunityIds : CreateCommunity(c)
    \/ \E c \in CommunityIds : JoinCommunity(c)
    \/ \E c \in CommunityIds : DevJoinCommunity(c)
    \/ \E c \in CommunityIds : LeaveCommunity(c)
    \/ \E c \in CommunityIds : DevLeaveCommunity(c)

SpecSync == InitSync /\ [][NextSync]_vars

(***************************************************************************)
(* Claims about community documents (checked under SpecSync).              *)
(***************************************************************************)
\* C7: the set of loaded community ids is changed by local commands only.  No
\* step in which the event loop handles a sync or gossip message adds or
\* removes a community, and a DocumentOffer for a community the engine does
\* not hold creates no state: no document, no subscription, no guard entry,
\* nothing published and no SyncComplete.
C7_GossipNeverChangesLoadedCommunities ==
    [][(gossip_in # <<>> /\ gossip_in' = <<>>) =>
         /\ DOMAIN documents' = DOMAIN documents
         /\ (Handling("DocumentOffer")
               /\ gossip_in[1].body.community_id \notin DOMAIN documents)
              => /\ UNCHANGED <<documents, subscriptions, pending_join_role_guard>>
                 /\ published' = {}
                 /\ emitted' = <<>>]_vars

\* an offer for a community the engine does not hold has just been discarded
C7_Witness ==
    \E c \in CommunityIds :
        /\ logged = <<"ignoring document offer for unknown community " \o c>>
        /\ ~has_community(documents, c)
        /\ gossip_in = <<>>

\* C8: once leave_community(cid) has completed the engine holds no document
\* for cid, and none comes back (whatever DocumentOffer arrives) until the
\* next join_community or create_community for cid.
C8_LeftCommunityNotLoaded ==
    \A c \in left_communities : ~has_community(documents, c)

\* C9: after join_community(cid), when the first successful merge of an offer
\* for cid shows the local peer as owner or admin, the event loop sets the
\* local roles to [member], publishes the corrected snapshot on dusk/sync and
\* removes cid from pending_join_role_guard; and it publishes a corrected
\* snapshot for no merge other than the first after a join.
C9_FirstElevatedMergeHardensJoinRole ==
    [][(Handling("DocumentOffer") /\ gossip_in' = <<>>
          /\ has_community(documents, gossip_in[1].body.community_id))
         => LET c == gossip_in[1].body.community_id
                merged == merge_remote_doc(documents, c, gossip_in[1].body.doc_bytes)
            IN  /\ (c \in awaiting_first_merge
                      /\ merged.ok
                      /\ local_has_elevated_role(merged.documents, c))
                     => /\ \E member \in get_members(documents', c) :
                              member.peer_id = LocalPeer /\ member.roles = <<"member">>
                        /\ published' = {DocumentOffer(c, get_doc_bytes(documents', c))}
                        /\ c \notin pending_join_role_guard'
                /\ published' # {} => c \in awaiting_first_merge]_vars

\* C10: every loaded community document that has been initialised with a
\* member list (anything but a bare placeholder awaiting its first sync) has
\* exactly one member with the role owner.
C10_ExactlyOneOwner ==
    \A c \in DOMAIN documents :
        RootsOf(documents[c]) # {"placeholder"}
            => Cardinality({member \in get_members(documents, c) :
                              \E i \in DOMAIN member.roles : member.roles[i] = "owner"}) = 1

(***************************************************************************)
(* Channel messages (crdt/document.rs, crdt/mod.rs, commands/chat.rs,      *)
(* commands/community.rs).  An element of a channel's message list is kept *)
(* with the members/channels root it was inserted under, the replica that  *)
(* inserted it and that replica's count of insertions: two insertions are  *)
(* two elements whatever they carry.                                       *)
(***************************************************************************)
\* insertions the local replica makes in one run
MaxLocalElems == 1

\* send_message: the id is "msg_{peer}_{millis}"
ChatMessage(author, now) ==
    [id |-> "msg_" \o author \o "_" \o ToString(now), channel_id |-> "ch_general",
     author_id |-> author, timestamp |-> now]

ChatMessages == {ChatMessage(p, t) : p \in Creators, t \in Timestamps}

\* the elements of the visible message list that are not deleted
MessageEntries(doc) ==
    {e \in doc.messages \ doc.deleted : e.root = MembersRoot(doc)}

\* CrdtEngine::append_message, run by the engine of actor: inserts a new
\* element at the end of the channel's list, whatever the list holds
append_message_by(actor, docs, community_id, message) ==
    IF community_id \notin DOMAIN docs
       \/ message.channel_id \notin get_channels(docs, community_id)
    THEN [ok |-> FALSE, documents |-> docs]
    ELSE LET doc == docs[community_id]
             elem == [root |-> MembersRoot(doc), site |-> actor,
                      k |-> 1 + Cardinality({e \in doc.messages : e.site = actor}),
                      id |-> message.id, author_id |-> message.author_id]
         IN  [ok |-> TRUE,
              documents |-> [docs EXCEPT ![community_id].messages = @ \cup {elem}]]

\* CrdtEngine::append_message of the local engine
append_message(docs, community_id, message) ==
    append_message_by(LocalPeer, docs, community_id, message)

Chat(community_id, message) ==
    [type |-> "Chat", topic |-> topic_for_messages(community_id, message.channel_id),
     body |-> message]

DeleteMessage(community_id, message_id) ==
    [type |-> "DeleteMessage", topic |-> topic_for_messages(community_id, "ch_general"),
     body |-> [message_id |-> message_id]]

\* what the remote peer publishes about messages: its messages, a deletion of
\* any id, and snapshots of the community the local peer created that hold the
\* elements its replica inserted for its messages, deleted or not
ChatTraffic ==
    LET RemoteEntries == {[root |-> LocalPeer, site |-> "p1", k |-> 1, id |-> m.id,
                           author_id |-> m.author_id] :
                             m \in {ChatMessage("p1", t) : t \in Timestamps}}
    IN  {Chat(c, ChatMessage("p1", t)) : c \in CommunityIds, t \in Timestamps}
          \cup {DeleteMessage(c, m.id) : c \in CommunityIds, m \in ChatMessages}
          \cup UNION {{DocumentOffer(c, [loads |-> TRUE,
                                         doc |-> [init_community_doc(LocalPeer) EXCEPT
                                                     !.messages = held, !.deleted = gone]]) :
                          c \in CommunityIds, gone \in SUBSET held} :
                       held \in SUBSET RemoteEntries \ {{}}}

\* Chat: the message is appended to the community the topic names
OnChat ==
    /\ Handling("Chat")
    /\ LET community_id == community_id_from_topic(gossip_in[1].topic)
           chat_msg == gossip_in[1].body
       IN  /\ community_id # <<>> /\ has_community(documents, community_id[1])
                => Cardinality({e \in documents[community_id[1]].messages :
                                   e.site = LocalPeer}) < MaxLocalElems
           /\ documents' = IF community_id # <<>>
                           THEN append_message(documents, community_id[1], chat_msg).documents
                           ELSE documents
           /\ emitted' = <<[kind |-> "MessageReceived", message |-> chat_msg]>>
    /\ gossip_in' = <<>>
    /\ logged' = <<>>
    /\ sent' = <<>>
    /\ published' = {}
    /\ UNCHANGED <<loopVars, dmVars, directory, pending_join_role_guard, frontend,
                   actor_high, awaiting_first_merge, left_communities, cmdVars, peerVars,
                   relayVars, resetVars, handlerVars, queryVars, swarmVars, stopVars,
                   netVars>>

\* DeleteMessage: the first element with the id is deleted; which of several
\* elements with one id comes first in the merged list is left open
OnDeleteMessage ==
    /\ Handling("DeleteMessage")
    /\ LET community_id == community_id_from_topic(gossip_in[1].topic)
           message_id == gossip_in[1].body.message_id
           found == IF community_id # <<>> /\ has_community(documents, community_id[1])
                    THEN {e \in MessageEntries(documents[community_id[1]]) : e.id = message_id}
                    ELSE {}
       IN  /\ IF found = {}
              THEN UNCHANGED documents
              ELSE \E e \in found :
                      documents' = [documents EXCEPT ![community_id[1]].deleted = @ \cup {e}]
           /\ emitted' = <<[kind |-> "MessageDeleted", message_id |-> message_id]>>
    /\ gossip_in' = <<>>
    /\ logged' = <<>>
    /\ sent' = <<>>
    /\ published' = {}
    /\ UNCHANGED <<loopVars, dmVars, directory, pending_join_role_guard, frontend,
                   actor_high, awaiting_first_merge, left_communities, cmdVars, peerVars,
                   relayVars, resetVars, handlerVars, queryVars, swarmVars, stopVars,
                   netVars>>

\* Tauri send_message: the community is the loaded one that has the channel
send_message(channel_id, now) ==
    LET msg == ChatMessage(LocalPeer, now)
        holders == {c \in DOMAIN documents : channel_id \in get_channels(documents, c)}
    IN  /\ \A c \in holders :
              Cardinality({e \in documents[c].messages : e.site = LocalPeer}) < MaxLocalElems
        /\ IF holders = {}
           THEN /\ returned' = "no community found containing channel " \o channel_id
                /\ sent' = <<>>
                /\ UNCHANGED documents
           ELSE \E community_id \in holders :
                   /\ documents' = append_message(documents, community_id, msg).documents
                   /\ sent' = IF node_running
                              THEN <<[cmd |-> "SendMessage",
                                      topic |-> topic_for_messages(community_id, channel_id),
                                      data |-> Chat(community_id, msg)]>>
                              ELSE <<>>
                   /\ returned' = "ok"
        /\ emitted' = <<>>
        /\ logged' = <<>>
        /\ published' = {}
        /\ UNCHANGED <<loopVars, dmVars, dirVars, pending_join_role_guard, frontend,
                       actor_high, awaiting_first_merge, left_communities, kick_pending,
                       peerVars, relayVars, resetVars, handlerVars, queryVars, swarmVars,
                       stopVars, netVars>>

\* mutation of may_delete: anybody may delete
may_delete_anything(message, peer_id_str) == TRUE

\* only allow deletion by the author
may_delete(message, peer_id_str) == message.author_id = peer_id_str

\* Tauri delete_message: get_message and delete_message both take the first
\* element with the id, under one hold of the engine lock
delete_message(community_id, message_id) ==
    LET found == IF has_community(documents, community_id)
                 THEN {e \in MessageEntries(documents[community_id]) : e.id = message_id}
                 ELSE {}
    IN  /\ IF ~has_community(documents, community_id)
           THEN /\ returned' = "community not found"
                /\ sent' = <<>>
                /\ UNCHANGED documents
           ELSE IF found = {}
           THEN /\ returned' = "message " \o message_id \o " not found"
                /\ sent' = <<>>
                /\ UNCHANGED documents
           ELSE \E message \in found :
                   IF ~may_delete(message, LocalPeer)
                   THEN /\ returned' = "not authorized to delete this message"
                        /\ sent' = <<>>
                        /\ UNCHANGED documents
                   ELSE /\ documents' = [documents EXCEPT
                                            ![community_id].deleted = @ \cup {message}]
                        /\ sent' = IF node_running
                                   THEN <<[cmd |-> "SendMessage",
                                           topic |-> topic_for_messages(community_id,
                                                                        "ch_general"),
                                           data |-> DeleteMessage(community_id, message_id)]>>
                                   ELSE <<>>
                        /\ returned' = "ok"
        /\ emitted' = <<>>
        /\ logged' = <<>>
        /\ published' = {}
        /\ UNCHANGED <<loopVars, dmVars, dirVars, pending_join_role_guard, frontend,
                       actor_high, awaiting_first_merge, left_communities, kick_pending,
                       peerVars, relayVars, resetVars, handlerVars, queryVars, swarmVars,
                       stopVars, netVars>>

(***************************************************************************)
(* SpecChat: the messages of a community the local peer created.           *)
(***************************************************************************)
InitChat ==
    /\ InitStorageEmpty
    /\ fts_enabled = TRUE
    /\ frontend = "tauri"
    /\ actor_high.created /\ ~actor_high.placeholder

NextChat ==
    \/ \E c \in CommunityIds : CreateCommunity(c)
    \/ \E m \in ChatTraffic : SyncDeliver(m)
    \/ OnChat
    \/ OnDeleteMessage
    \/ OnDocumentOffer
    \/ \E now \in Timestamps : send_message("ch_general", now)
    \/ \E c \in CommunityIds, m \in ChatMessages : delete_message(c, m.id)

SpecChat == InitChat /\ [][NextChat]_vars

\* C11: message ids are unique within a community document: in no reachable
\* state does the visible message list of a loaded community hold two elements
\* with the same id.
C11_MessageIdsUnique ==
    \A c \in DOMAIN documents :
        \A e1, e2 \in MessageEntries(documents[c]) : e1.id = e2.id => e1 = e2

MaxOps == 2

\* the documents of the engine of a peer
EngineOf(peer) == IF peer = LocalPeer THEN documents ELSE peer_documents

\* the engine of peer now holds docs and the changes seen
EngineStep(peer, docs, seen) ==
    /\ IF peer = LocalPeer
       THEN documents' = docs /\ UNCHANGED peer_documents
       ELSE peer_documents' = docs /\ UNCHANGED documents
    /\ known' = [known EXCEPT ![peer] = seen]
    /\ UNCHANGED <<loopVars, outVars, dmVars, dirVars, pending_join_role_guard, published,
                   frontend, actor_high, awaiting_first_merge, left_communities, cmdVars,
                   relayVars, resetVars, handlerVars, queryVars, swarmVars, stopVars,
                   netVars>>

\* the engine of peer makes one more change of its own
OwnChange(peer, docs) ==
    LET own == {u \in known[peer] : u[1] = peer}
    IN  /\ Cardinality(own) < MaxOps
        /\ docs # EngineOf(peer)
        /\ EngineStep(peer, docs, known[peer] \cup {<<peer, 1 + Cardinality(own)>>})

EngineCreateCommunity(peer, community_id) ==
    /\ ~has_community(EngineOf(peer), community_id)
    /\ EngineStep(peer, create_community(EngineOf(peer), community_id, peer),
                  known[peer] \cup {<<peer, 0>>})

EngineCreateChannel(peer, community_id, channel_id) ==
    /\ channel_id \notin get_channels(EngineOf(peer), community_id)
    /\ OwnChange(peer, create_channel(EngineOf(peer), community_id, peer, channel_id))

EngineAppendMessage(peer, community_id, message) ==
    OwnChange(peer, append_message_by(peer, EngineOf(peer), community_id, message).documents)

EngineRemoveMember(peer, community_id, member) ==
    OwnChange(peer, remove_member(EngineOf(peer), community_id, member))

\* get_doc_bytes at one engine, the transport, merge_remote_doc at the other
CarrySnapshot(from, to, community_id) ==
    /\ has_community(EngineOf(from), community_id)
    /\ LET merged == merge_remote_doc(EngineOf(to), community_id,
                                      get_doc_bytes(EngineOf(from), community_id))
       IN  /\ merged.ok
           /\ EngineStep(to, merged.documents, known[to] \cup known[from])

InitMerge ==
    /\ InitStorageEmpty
    /\ fts_enabled = TRUE
    /\ frontend = "tauri"

NextMerge ==
    \/ \E p \in Creators, c \in CommunityIds : EngineCreateCommunity(p, c)
    \/ \E p \in Creators, c \in CommunityIds, ch \in {"ch_a", "ch_b"} :
          EngineCreateChannel(p, c, ch)
    \/ \E p \in Creators, c \in CommunityIds, t \in Timestamps :
          EngineAppendMessage(p, c, ChatMessage(p, t))
    \/ \E p \in Creators, c \in CommunityIds, member \in Creators :
          EngineRemoveMember(p, c, member)
    \/ \E p \in Creators, c \in CommunityIds : CarrySnapshot(p, Other(p), c)

SpecMerge == InitMerge /\ [][NextMerge]_vars

\* what the engine of a peer shows of a community
ViewOf(docs, community_id) ==
    [channels |-> document_get_channels(docs[community_id]),
     members |-> get_members(docs, community_id),
     messages |-> MessageEntries(docs[community_id])]

\* C12: merging converges whatever the order: whenever the engines of two
\* peers that both hold a community have seen the same set of changes, made
\* there or merged in from snapshots in any order, get_channels returns the same
\* list in the same order on both, and the members and the messages are equal.
C12_SameChangesSameView ==
    \A c \in CommunityIds :
        /\ has_community(documents, c) /\ has_community(peer_documents, c)
        /\ known[LocalPeer] = known["p1"]
        => ViewOf(documents, c) = ViewOf(peer_documents, c)

\* both engines made a channel while apart (the same position twice), one also
\* appended a message, and the snapshots went both ways
C12_Witness ==
    /\ has_community(documents, "c1") /\ has_community(peer_documents, "c1")
    /\ known[LocalPeer] = known["p1"]
    /\ \E u \in known[LocalPeer] : u[1] = LocalPeer /\ u[2] > 0
    /\ \E u \in known[LocalPeer] : u[1] = "p1" /\ u[2] > 0
    /\ LET channels == document_get_channels(documents["c1"])
       IN  /\ Len(channels) = 3
           /\ channels[2].position = channels[3].position
    /\ MessageEntries(documents["c1"]) # {}

(***************************************************************************)
(* kick_member (commands/community.rs).  The command checks the roles      *)
(* under one hold of the engine lock, releases it, and takes it again to   *)
(* remove the row: the event loop can handle a message in between.         *)
(***************************************************************************)
\* the requester is a member with role admin or owner, the target is a member
\* without role owner
KickAllowed(docs, community_id, member_peer_id) ==
    /\ \E requester \in get_members(docs, community_id) :
          /\ requester.peer_id = LocalPeer
          /\ \E i \in DOMAIN requester.roles : requester.roles[i] \in {"admin", "owner"}
    /\ \E target \in get_members(docs, community_id) :
          /\ target.peer_id = member_peer_id
          /\ \A i \in DOMAIN target.roles : target.roles[i] # "owner"

\* the checks, up to drop(engine)
kick_member(community_id, member_peer_id) ==
    LET members == get_members(documents, community_id)
        requesters == {m \in members : m.peer_id = LocalPeer}
        targets == {m \in members : m.peer_id = member_peer_id}
        error ==
            IF ~has_community(documents, community_id) THEN "community not found"
            ELSE IF requesters = {} THEN "requester not found in community"
            ELSE IF \A m \in requesters : \A i \in DOMAIN m.roles :
                       m.roles[i] \notin {"admin", "owner"}
                 THEN "not authorized to kick members"
            ELSE IF targets = {} THEN "member not found"
            ELSE IF \E m \in targets : \E i \in DOMAIN m.roles : m.roles[i] = "owner"
                 THEN "cannot kick the community owner"
            ELSE ""
    IN  /\ kick_pending = <<>>
        /\ IF error # ""
           THEN returned' = error /\ UNCHANGED kick_pending
           ELSE /\ returned' = "pending"
                /\ kick_pending' = <<[community_id |-> community_id,
                                      member_peer_id |-> member_peer_id]>>
        /\ emitted' = <<>>
        /\ logged' = <<>>
        /\ sent' = <<>>
        /\ published' = {}
        /\ UNCHANGED <<loopVars, dmVars, dirVars, documents, pending_join_role_guard,
                       frontend, actor_high, awaiting_first_merge, left_communities,
                       peerVars, relayVars, resetVars, handlerVars, queryVars, swarmVars,
                       stopVars, netVars>>

\* the rest of the command: remove_member, then the broadcast
kick_member_remove ==
    /\ kick_pending # <<>>
    /\ LET community_id == kick_pending[1].community_id
           member_peer_id == kick_pending[1].member_peer_id
       IN  IF ~has_community(documents, community_id)
           THEN /\ returned' = "community not found"
                /\ sent' = <<>>
                /\ UNCHANGED documents
           ELSE /\ documents' = remove_member(documents, community_id, member_peer_id)
                /\ sent' = IF node_running
                           THEN <<[cmd |-> "SendMessage",
                                   topic |-> topic_for_presence(community_id),
                                   data |-> MemberKicked(topic_for_presence(community_id),
                                                         member_peer_id)]>>
                           ELSE <<>>
                /\ returned' = "ok"
    /\ kick_pending' = <<>>
    /\ emitted' = <<>>
    /\ logged' = <<>>
    /\ published' = {}
    /\ UNCHANGED <<loopVars, dmVars, dirVars, pending_join_role_guard, frontend,
                   actor_high, awaiting_first_merge, left_communities, peerVars, relayVars,
                   resetVars, handlerVars, queryVars, swarmVars, stopVars, netVars>>

\* the snapshots remote peers offer: of a document one peer initialised, its
\* row as it was or changed to member, with or without a row for the other peer
KickTraffic ==
    {DocumentOffer(c, [loads |-> TRUE,
                       doc |-> [init_community_doc(root) EXCEPT
                                   !.rows[root] = role, !.guests[root] = guest]]) :
        c \in CommunityIds, root \in Creators, role \in {"owner", "member"},
        guest \in {"absent", "member", "admin"}}

(***************************************************************************)
(* SpecKick: kick_member on a community the local peer created or joined,  *)
(* next to the event loop merging the snapshots remote peers offer.        *)
(***************************************************************************)
InitKick ==
    /\ InitStorageEmpty
    /\ fts_enabled = TRUE
    /\ frontend = "tauri"

NextKick ==
    \/ \E c \in CommunityIds : CreateCommunity(c)
    \/ \E c \in CommunityIds : JoinCommunity(c)
    \/ \E m \in KickTraffic : SyncDeliver(m)
    \/ OnDocumentOffer
    \/ \E c \in CommunityIds, p \in Creators : kick_member(c, p)
    \/ kick_member_remove

SpecKick == InitKick /\ [][NextKick]_vars

\* C13: kick_member removes a member and enqueues MemberKicked only when the
\* caller holds role owner or admin in the community and the target does not
\* hold role owner; a call made in any other case returns an error, leaves the
\* members as they are and enqueues nothing.
C13_KickOnlyWhenAuthorized ==
    [][/\ \A c \in CommunityIds, p \in Creators :
             kick_member(c, p) /\ ~KickAllowed(documents, c, p)
                => /\ returned' \notin {"ok", "pending"}
                   /\ get_members(documents', c) = get_members(documents, c)
                   /\ sent' = <<>>
       /\ kick_member_remove /\ returned' = "ok"
             => KickAllowed(documents, kick_pending[1].community_id,
                            kick_pending[1].member_peer_id)]_vars

(***************************************************************************)
(* Relay and rendezvous (node/mod.rs, start).  The swarm's side is an      *)
(* input: a dial of the relay it has under way ends with a connection or   *)
(* an OutgoingConnectionError, a reservation is accepted only over a       *)
(* connection, and a connection that is up may close.  Time is counted in  *)
(* seconds; a timer that is due fires before time moves on.  The events    *)
(* about peers (PeerConnected, NodeStatus) and the log lines are left out. *)
(***************************************************************************)
RELAY_INITIAL_BACKOFF_SECS == 2
RELAY_MAX_BACKOFF_SECS == 120
RELAY_BACKOFF_MULTIPLIER == 2
PENDING_QUEUE_TTL_SECS == 600
RELAY_WARN_GRACE_SECS == 8
\* the period of rendezvous_tick
RENDEZVOUS_TICK_SECS == 120

\* how far the clock runs when it moves by seconds
MaxClock == 20
\* how far the clock runs when it moves from one timer to the next
MaxTimerClock == 260
\* how far the clock runs over the ticks of the rendezvous interval
MaxTickClock == 720
\* how many dials of the relay the swarm has under way at once
MaxDials == 2
\* how many namespaces wait in the two queues together
MaxQueued == 2

Namespaces == {"dusk/community/c1"}

RelayStatus(connected) == [kind |-> "RelayStatus", connected |-> connected]

\* what every step of this part leaves alone, with the warnings it logs
RelayFrameLogging(warnings) ==
    /\ logged' = warnings
    /\ sent' = <<>>
    /\ UNCHANGED <<loopVars, dmVars, dirVars, documents, pending_join_role_guard, frontend,
                   actor_high, awaiting_first_merge, left_communities, cmdVars, peerVars,
                   resetVars, handlerVars, queryVars, swarmVars, stopVars, netVars>>

RelayFrame == RelayFrameLogging(<<>>)

\* the same schedule with a backoff that doubles without a cap
ScheduleRetry_uncapped ==
    /\ relay_retry_at' = <<clock + relay_backoff_secs>>
    /\ relay_backoff_secs' = relay_backoff_secs * RELAY_BACKOFF_MULTIPLIER
    /\ scheduled' = Append(scheduled, [delay |-> relay_backoff_secs, by |-> "failure"])

\* the backoff is doubled, but no retry is set
ScheduleRetry_without_timer ==
    /\ relay_retry_at' = <<>>
    /\ relay_backoff_secs' =
          IF relay_backoff_secs * RELAY_BACKOFF_MULTIPLIER < RELAY_MAX_BACKOFF_SECS
          THEN relay_backoff_secs * RELAY_BACKOFF_MULTIPLIER
          ELSE RELAY_MAX_BACKOFF_SECS
    /\ scheduled' = Append(scheduled, [delay |-> relay_backoff_secs, by |-> "failure"])

\* relay_retry_at = now + relay_backoff_secs, then the backoff is doubled up to the cap
ScheduleRetry ==
    /\ relay_retry_at' = <<clock + relay_backoff_secs>>
    /\ relay_backoff_secs' =
          IF relay_backoff_secs * RELAY_BACKOFF_MULTIPLIER < RELAY_MAX_BACKOFF_SECS
          THEN relay_backoff_secs * RELAY_BACKOFF_MULTIPLIER
          ELSE RELAY_MAX_BACKOFF_SECS
    /\ scheduled' = Append(scheduled, [delay |-> relay_backoff_secs, by |-> "failure"])

\* the deferred warning is set unless one is waiting; the failure is remembered
DeferWarning ==
    /\ relay_warn_at' = IF relay_warn_at = <<>>
                        THEN <<clock + RELAY_WARN_GRACE_SECS>>
                        ELSE relay_warn_at
    /\ outage_since' = IF outage_since = <<>> THEN <<clock>> ELSE outage_since

\* start, up to the spawn of the event loop: the relay is configured or not,
\* and the first dial fails at once or gets under way
start(configured, dial_ok) ==
    /\ relay_link = "unstarted"
    /\ relay_link' = IF configured THEN "down" ELSE "none"
    /\ relay_dials' = IF configured /\ dial_ok THEN 1 ELSE 0
    /\ emitted' = IF configured /\ dial_ok THEN <<>> ELSE <<RelayStatus(FALSE)>>
    /\ relay_backoff_secs' = RELAY_INITIAL_BACKOFF_SECS
    /\ relay_retry_at' = IF configured THEN <<clock + RELAY_INITIAL_BACKOFF_SECS>> ELSE <<>>
    /\ scheduled' = IF configured
                    THEN <<[delay |-> RELAY_INITIAL_BACKOFF_SECS, by |-> "start"]>>
                    ELSE <<>>
    /\ outage_since' = IF configured /\ ~dial_ok THEN <<clock>> ELSE <<>>
    /\ rendezvous_tick' = clock
    /\ published' = {}
    /\ rendezvous_calls' = <<>>
    /\ UNCHANGED <<clock, relay_reservation_active, relay_warn_at, pending_registrations,
                   pending_discoveries, pending_queued_at, registered_namespaces>>
    /\ UNCHANGED <<last_queued_at, registering, unregistered>>
    /\ RelayFrame

\* OutgoingConnectionError for the relay peer
OnOutgoingConnectionError ==
    /\ relay_dials > 0
    /\ relay_dials' = relay_dials - 1
    /\ DeferWarning
    /\ ScheduleRetry
    /\ emitted' = <<>>
    /\ published' = {}
    /\ rendezvous_calls' = <<>>
    /\ UNCHANGED <<clock, relay_link, relay_reservation_active, rendezvous_tick,
                   pending_registrations, pending_discoveries, pending_queued_at,
                   registered_namespaces>>
    /\ UNCHANGED <<last_queued_at, registering, unregistered>>
    /\ RelayFrame

\* ConnectionEstablished with the relay peer
OnConnectionEstablished ==
    /\ relay_dials > 0
    /\ relay_dials' = relay_dials - 1
    /\ relay_link' = "up"
    /\ IF ~relay_reservation_active
       THEN /\ relay_backoff_secs' = RELAY_INITIAL_BACKOFF_SECS
            /\ relay_retry_at' = <<>>
            /\ relay_warn_at' = <<>>
            /\ emitted' = <<RelayStatus(TRUE)>>
            /\ scheduled' = <<>>
       ELSE /\ emitted' = <<>>
            /\ UNCHANGED <<relay_backoff_secs, relay_retry_at, relay_warn_at, scheduled>>
    /\ outage_since' = <<>>
    /\ published' = {RequestSync(LocalPeer)}
    /\ rendezvous_calls' = <<>>
    /\ UNCHANGED <<clock, relay_reservation_active, rendezvous_tick, pending_registrations,
                   pending_discoveries, pending_queued_at, registered_namespaces>>
    /\ UNCHANGED <<last_queued_at, registering, unregistered>>
    /\ RelayFrame

\* one call of the rendezvous client for each namespace; ok tells whether
\* the call returned Ok
CallsFor(op, names, succeeded) ==
    [i \in DOMAIN names |-> [op |-> op, namespace |-> names[i], ok |-> i \in succeeded]]

\* pending_queued_at once a command is queued: set if it was None
\* (variant: set anew by every queued command)
QueuedAt_refreshed(queued_at, now) == <<now>>
\* the commands queue without setting the age of the queue
QueuedAt_never_set(queued_at, now) == queued_at

QueuedAt(queued_at, now) == IF queued_at = <<>> THEN <<now>> ELSE queued_at

\* the namespaces of a set, in the order an iteration yields them
RECURSIVE IterationOf(_)
IterationOf(set) ==
    IF set = {} THEN <<>>
    ELSE LET ns == CHOOSE x \in set : TRUE IN <<ns>> \o IterationOf(set \ {ns})

\* relay::client::Event::ReservationReqAccepted; rendezvous.register may fail
\* for any of the queued namespaces
OnReservationReqAccepted ==
    /\ relay_link = "up"
    /\ relay_reservation_active' = TRUE
    /\ relay_warn_at' = <<>>
    /\ emitted' = <<RelayStatus(TRUE)>>
    /\ \E registered \in SUBSET DOMAIN pending_registrations :
          /\ registered_namespaces' =
                 registered_namespaces \cup {pending_registrations[i] : i \in registered}
          /\ registering' = registering \cup {pending_registrations[i] : i \in registered}
          /\ rendezvous_calls' =
                 CallsFor("register", pending_registrations, registered)
                    \o CallsFor("discover", pending_discoveries,
                                DOMAIN pending_discoveries)
    /\ pending_registrations' = <<>>
    /\ pending_discoveries' = <<>>
    /\ pending_queued_at' = <<>>
    /\ published' = {[type |-> "ProfileAnnounce", topic |-> topic_for_directory,
                      body |-> [peer_id |-> LocalPeer]]}
    /\ outage_since' = <<>>
    /\ UNCHANGED <<clock, relay_link, relay_dials, relay_backoff_secs, relay_retry_at,
                   rendezvous_tick, scheduled>>
    /\ UNCHANGED <<last_queued_at, unregistered>>
    /\ RelayFrame

\* ConnectionClosed for the relay peer, no connection to it left
OnConnectionClosed ==
    /\ relay_link = "up"
    /\ relay_link' = "down"
    /\ relay_reservation_active' = FALSE
    /\ DeferWarning
    /\ ScheduleRetry
    /\ emitted' = <<>>
    /\ published' = {}
    /\ rendezvous_calls' = <<>>
    /\ UNCHANGED <<clock, relay_dials, rendezvous_tick, pending_registrations,
                   pending_discoveries, pending_queued_at, registered_namespaces>>
    /\ registering' = {}
    /\ UNCHANGED <<last_queued_at, unregistered>>
    /\ RelayFrame

\* rendezvous_tick.tick(): the refresh of the registrations, then the cleanup
\* of the queues
\* queued_at.elapsed() > PENDING_QUEUE_TTL_SECS
\* (variant: the queue expires when the TTL is reached)
QueueExpired_at_ttl(queued_at, now) == now - queued_at >= PENDING_QUEUE_TTL_SECS

QueueExpired(queued_at, now) == now - queued_at > PENDING_QUEUE_TTL_SECS

OnRendezvousTick ==
    /\ relay_link # "unstarted"
    /\ clock >= rendezvous_tick
    /\ rendezvous_tick' = rendezvous_tick + RENDEZVOUS_TICK_SECS
    /\ rendezvous_calls' =
          IF relay_reservation_active
          THEN CallsFor("register", IterationOf(registered_namespaces),
                        1..Cardinality(registered_namespaces))
          ELSE <<>>
    /\ IF /\ pending_queued_at # <<>>
          /\ QueueExpired(pending_queued_at[1], clock)
          /\ pending_registrations # <<>> \/ pending_discoveries # <<>>
       THEN /\ pending_registrations' = <<>>
            /\ pending_discoveries' = <<>>
            /\ pending_queued_at' = <<>>
            /\ RelayFrameLogging(<<[warn |-> "discarding pending registrations and discoveries",
                                    registrations |-> Len(pending_registrations),
                                    discoveries |-> Len(pending_discoveries),
                                    secs |-> PENDING_QUEUE_TTL_SECS]>>)
       ELSE /\ UNCHANGED <<pending_registrations, pending_discoveries, pending_queued_at>>
            /\ RelayFrame
    /\ emitted' = <<>>
    /\ published' = {}
    /\ UNCHANGED <<clock, relay_link, relay_dials, relay_reservation_active,
                   relay_backoff_secs, relay_warn_at, relay_retry_at, registered_namespaces,
                   scheduled, outage_since>>
    /\ registering' = IF relay_reservation_active
                    THEN registering \cup registered_namespaces ELSE registering
    /\ UNCHANGED <<last_queued_at, unregistered>>

\* sleep_until(relay_retry_at): another dial unless the reservation is active;
\* the dial gets under way or fails at once
OnRelayRetry(dial_ok) ==
    /\ relay_retry_at # <<>>
    /\ clock >= relay_retry_at[1]
    /\ IF relay_reservation_active
       THEN /\ relay_retry_at' = <<>>
            /\ UNCHANGED <<relay_dials, relay_backoff_secs, scheduled, outage_since>>
       ELSE IF dial_ok
            THEN /\ relay_dials < MaxDials
                 /\ relay_dials' = relay_dials + 1
                 /\ relay_retry_at' = <<>>
                 /\ UNCHANGED <<relay_backoff_secs, scheduled, outage_since>>
            ELSE /\ ScheduleRetry
                 /\ outage_since' = IF outage_since = <<>> THEN <<clock>> ELSE outage_since
                 /\ UNCHANGED relay_dials
    /\ emitted' = <<>>
    /\ published' = {}
    /\ rendezvous_calls' = <<>>
    /\ UNCHANGED <<clock, relay_link, relay_reservation_active, relay_warn_at,
                   rendezvous_tick, pending_registrations, pending_discoveries,
                   pending_queued_at, registered_namespaces>>
    /\ UNCHANGED <<last_queued_at, registering, unregistered>>
    /\ RelayFrame

\* sleep_until(relay_warn_at): the deferred warning
OnRelayWarn ==
    /\ relay_warn_at # <<>>
    /\ clock >= relay_warn_at[1]
    /\ relay_warn_at' = <<>>
    /\ emitted' = IF ~relay_reservation_active THEN <<RelayStatus(FALSE)>> ELSE <<>>
    /\ published' = {}
    /\ rendezvous_calls' = <<>>
    /\ UNCHANGED <<clock, relay_link, relay_dials, relay_reservation_active,
                   relay_backoff_secs, relay_retry_at, rendezvous_tick,
                   pending_registrations, pending_discoveries, pending_queued_at,
                   registered_namespaces, scheduled, outage_since>>
    /\ UNCHANGED <<last_queued_at, registering, unregistered>>
    /\ RelayFrame

\* NodeCommand::RegisterRendezvous
OnRegisterRendezvous(namespace) ==
    /\ relay_link # "unstarted"
    /\ IF relay_reservation_active
       THEN /\ \E registered \in BOOLEAN :
                  /\ rendezvous_calls' = <<[op |-> "register", namespace |-> namespace,
                                            ok |-> registered]>>
                  /\ registering' = IF registered THEN registering \cup {namespace}
                                     ELSE registering
                  /\ registered_namespaces' = IF registered
                                              THEN registered_namespaces \cup {namespace}
                                              ELSE registered_namespaces
            /\ UNCHANGED <<pending_registrations, pending_queued_at, last_queued_at>>
       ELSE /\ Len(pending_registrations) + Len(pending_discoveries) < MaxQueued
            /\ pending_queued_at' = QueuedAt(pending_queued_at, clock)
            /\ pending_registrations' = Append(pending_registrations, namespace)
            /\ last_queued_at' = clock
            /\ rendezvous_calls' = <<>>
            /\ UNCHANGED <<registered_namespaces, registering>>
    /\ unregistered' = unregistered \ {namespace}
    /\ emitted' = <<>>
    /\ published' = {}
    /\ UNCHANGED <<clock, relay_link, relay_dials, relay_reservation_active,
                   relay_backoff_secs, relay_warn_at, relay_retry_at, rendezvous_tick,
                   pending_discoveries, scheduled, outage_since>>
    /\ RelayFrame

\* NodeCommand::DiscoverRendezvous
OnDiscoverRendezvous(namespace) ==
    /\ relay_link # "unstarted"
    /\ IF relay_reservation_active
       THEN /\ rendezvous_calls' = <<[op |-> "discover", namespace |-> namespace,
                                      ok |-> TRUE]>>
            /\ UNCHANGED <<pending_discoveries, pending_queued_at, last_queued_at>>
       ELSE /\ Len(pending_registrations) + Len(pending_discoveries) < MaxQueued
            /\ pending_queued_at' = QueuedAt(pending_queued_at, clock)
            /\ pending_discoveries' = Append(pending_discoveries, namespace)
            /\ last_queued_at' = clock
            /\ rendezvous_calls' = <<>>
    /\ unregistered' = unregistered \ {namespace}
    /\ UNCHANGED registering
    /\ emitted' = <<>>
    /\ published' = {}
    /\ UNCHANGED <<clock, relay_link, relay_dials, relay_reservation_active,
                   relay_backoff_secs, relay_warn_at, relay_retry_at, rendezvous_tick,
                   pending_registrations, registered_namespaces, scheduled, outage_since>>
    /\ RelayFrame

\* NodeCommand::UnregisterRendezvous
OnUnregisterRendezvous(namespace) ==
    /\ relay_link # "unstarted"
    /\ pending_registrations' =
          SelectSeq(pending_registrations, LAMBDA ns : ns # namespace)
    /\ pending_discoveries' =
          SelectSeq(pending_discoveries, LAMBDA ns : ns # namespace)
    /\ pending_queued_at' = IF pending_registrations' = <<>> /\ pending_discoveries' = <<>>
                            THEN <<>> ELSE pending_queued_at
    /\ registered_namespaces' = registered_namespaces \ {namespace}
    /\ rendezvous_calls' = IF relay_reservation_active
                           THEN <<[op |-> "unregister", namespace |-> namespace,
                                   ok |-> TRUE]>>
                           ELSE <<>>
    /\ emitted' = <<>>
    /\ published' = {}
    /\ UNCHANGED <<clock, relay_link, relay_dials, relay_reservation_active,
                   relay_backoff_secs, relay_warn_at, relay_retry_at, rendezvous_tick,
                   scheduled, outage_since>>
    /\ unregistered' = unregistered \cup {namespace}
    /\ UNCHANGED <<last_queued_at, registering>>
    /\ RelayFrame

\* rendezvous::client::Event::Registered: the answer to a register request
OnRegistered(namespace) ==
    /\ relay_link # "unstarted"
    /\ namespace \in registering
    /\ registering' = registering \ {namespace}
    /\ registered_namespaces' = registered_namespaces \cup {namespace}
    /\ emitted' = <<>>
    /\ published' = {}
    /\ rendezvous_calls' = <<>>
    /\ UNCHANGED <<clock, relay_link, relay_dials, relay_reservation_active,
                   relay_backoff_secs, relay_warn_at, relay_retry_at, rendezvous_tick,
                   pending_registrations, pending_discoveries, pending_queued_at,
                   scheduled, outage_since, last_queued_at, unregistered>>
    /\ RelayFrame

\* the instants the timers of the loop are set to
Deadlines ==
    {rendezvous_tick} \cup {relay_retry_at[i] : i \in DOMAIN relay_retry_at}
        \cup {relay_warn_at[i] : i \in DOMAIN relay_warn_at}

\* time passes, up to the next instant a timer is set to
Advance(secs, until) ==
    /\ relay_link # "unstarted"
    /\ secs > 0
    /\ clock + secs <= until
    /\ \A deadline \in Deadlines : clock + secs <= deadline
    /\ clock' = clock + secs
    /\ emitted' = <<>>
    /\ published' = {}
    /\ rendezvous_calls' = <<>>
    /\ UNCHANGED <<relay_link, relay_dials, relay_reservation_active, relay_backoff_secs,
                   relay_warn_at, relay_retry_at, rendezvous_tick, pending_registrations,
                   pending_discoveries, pending_queued_at, registered_namespaces,
                   scheduled, outage_since>>
    /\ UNCHANGED <<last_queued_at, registering, unregistered>>
    /\ RelayFrame

(***************************************************************************)
(* SpecRelay: the connection to the relay, second by second over the first *)
(* reconnect attempts.                                                     *)
(***************************************************************************)
InitRelay ==
    /\ InitStorageEmpty
    /\ fts_enabled = TRUE
    /\ frontend = "tauri"
    /\ actor_high.created /\ ~actor_high.placeholder

Swarm ==
    \/ OnOutgoingConnectionError
    \/ OnConnectionEstablished
    \/ OnReservationReqAccepted
    \/ OnConnectionClosed

NextRelay ==
    \/ \E configured, dial_ok \in BOOLEAN : start(configured, dial_ok)
    \/ Swarm
    \/ \E dial_ok \in BOOLEAN : OnRelayRetry(dial_ok)
    \/ OnRelayWarn
    \/ OnRendezvousTick
    \/ Advance(1, MaxClock)

SpecRelay == InitRelay /\ [][NextRelay]_vars

\* C16: whenever the event loop has handled ReservationReqAccepted,
\* relay_reservation_active is true, the deferred warning is cleared,
\* RelayStatus{connected:true} has been emitted, the backoff equals its
\* initial 2 s, every namespace of the two pending queues has been issued to
\* the rendezvous client, both queues are empty and the profile announcement
\* has been republished.
C16_ReservationAccepted ==
    [][OnReservationReqAccepted
         => /\ relay_reservation_active'
            /\ relay_warn_at' = <<>>
            /\ emitted' = <<RelayStatus(TRUE)>>
            /\ relay_backoff_secs' = RELAY_INITIAL_BACKOFF_SECS
            /\ \A i \in DOMAIN pending_registrations :
                  \E j \in DOMAIN rendezvous_calls' :
                     /\ rendezvous_calls'[j].op = "register"
                     /\ rendezvous_calls'[j].namespace = pending_registrations[i]
            /\ \A i \in DOMAIN pending_discoveries :
                  \E j \in DOMAIN rendezvous_calls' :
                     /\ rendezvous_calls'[j].op = "discover"
                     /\ rendezvous_calls'[j].namespace = pending_discoveries[i]
            /\ pending_registrations' = <<>>
            /\ pending_discoveries' = <<>>
            /\ \E msg \in published' : msg.type = "ProfileAnnounce"]_vars

\* C17: with a relay configured, RelayStatus{connected:false} is emitted once
\* the 8-second grace period counted from the first failure has expired
\* without a reservation and not before: an emission comes no earlier than 8 s
\* after the first failure of the outage and without a reservation, and while
\* the relay is out of reach within the grace period the warning is due at its
\* end.  An established connection or an accepted reservation ends the outage.
C17_WarningAfterGrace ==
    relay_link \notin {"unstarted", "none"}
        => /\ (\E i \in DOMAIN emitted : emitted[i] = RelayStatus(FALSE))
                 => /\ outage_since # <<>>
                    /\ clock >= outage_since[1] + RELAY_WARN_GRACE_SECS
                    /\ ~relay_reservation_active
           /\ (/\ relay_link = "down"
               /\ outage_since # <<>>
               /\ ~relay_reservation_active
               /\ clock < outage_since[1] + RELAY_WARN_GRACE_SECS)
                 => relay_warn_at = <<outage_since[1] + RELAY_WARN_GRACE_SECS>>

(***************************************************************************)
(* SpecBackoff: the same loop over the whole backoff schedule; time moves  *)
(* from one timer to the next.                                             *)
(***************************************************************************)
NextBackoff ==
    \/ \E configured, dial_ok \in BOOLEAN : start(configured, dial_ok)
    \/ Swarm
    \/ \E dial_ok \in BOOLEAN : OnRelayRetry(dial_ok)
    \/ OnRelayWarn
    \/ OnRendezvousTick
    \/ \E deadline \in Deadlines : Advance(deadline - clock, MaxTimerClock)

SpecBackoff == InitRelay /\ [][NextBackoff]_vars

\* the i-th delay of the schedule 2, 4, 8, 16, 32, 64, 120, 120, ...
RECURSIVE ExpectedDelay(_)
ExpectedDelay(i) ==
    IF i = 1 THEN RELAY_INITIAL_BACKOFF_SECS
    ELSE IF ExpectedDelay(i - 1) * RELAY_BACKOFF_MULTIPLIER < RELAY_MAX_BACKOFF_SECS
         THEN ExpectedDelay(i - 1) * RELAY_BACKOFF_MULTIPLIER
         ELSE RELAY_MAX_BACKOFF_SECS

\* the delays the failures have scheduled since the backoff was last reset
FailureDelays == SelectSeq(scheduled, LAMBDA e : e.by = "failure")

BackoffInRange ==
    relay_link \notin {"unstarted", "none"}
        => /\ relay_backoff_secs >= RELAY_INITIAL_BACKOFF_SECS
           /\ relay_backoff_secs <= RELAY_MAX_BACKOFF_SECS

\* C15 as stated: while the relay stays unreachable the delays scheduled
\* before successive reconnect attempts are 2, 4, 8, 16, 32, 64, 120, 120, ...
\* seconds, and the backoff stays between 2 and 120.
C15_DelaysDoubleFromTwo ==
    /\ \A i \in DOMAIN scheduled : scheduled[i].delay = ExpectedDelay(i)
    /\ BackoffInRange

\* C15, amended: the delays that successive failures schedule since the
\* backoff was last reset are 2, 4, 8, 16, 32, 64, 120, 120, ... seconds and
\* the backoff stays between 2 and 120; the first retry, which start
\* schedules, comes after 2 seconds and doubles nothing.
C15_FailureDelaysDouble ==
    /\ \A i \in DOMAIN FailureDelays : FailureDelays[i].delay = ExpectedDelay(i)
    /\ relay_link \notin {"unstarted", "none"}
          => relay_backoff_secs = ExpectedDelay(Len(FailureDelays) + 1)
    /\ \A i \in DOMAIN scheduled :
          scheduled[i].by = "start" => i = 1 /\ scheduled[i].delay = RELAY_INITIAL_BACKOFF_SECS
    /\ BackoffInRange

\* the schedule has reached the cap twice after a start whose dial failed
C15_Witness ==
    /\ Len(FailureDelays) >= 8
    /\ FailureDelays[7].delay = RELAY_MAX_BACKOFF_SECS
    /\ FailureDelays[8].delay = RELAY_MAX_BACKOFF_SECS
    /\ scheduled[1].by = "start"

(***************************************************************************)
(* SpecRendezvous: the same loop with the rendezvous commands, over the    *)
(* ticks of the 120-second interval; time moves from one timer to the next.*)
(* The relay answers the dial of start or none: a later dial fails at once, *)
(* and the swarm reports on the relay during the first seconds only.       *)
(***************************************************************************)
NextRendezvous ==
    \/ \E configured, dial_ok \in BOOLEAN : start(configured, dial_ok)
    \/ clock <= MaxClock /\ Swarm
    \/ OnRelayRetry(FALSE)
    \/ OnRelayWarn
    \/ OnRendezvousTick
    \/ \E ns \in Namespaces : OnRegisterRendezvous(ns)
    \/ \E ns \in Namespaces : OnDiscoverRendezvous(ns)
    \/ \E ns \in Namespaces : OnUnregisterRendezvous(ns)
    \/ \E ns \in Namespaces : OnRegistered(ns)
    \/ \E deadline \in Deadlines : Advance(deadline - clock, MaxTickClock)

SpecRendezvous == InitRelay /\ [][NextRendezvous]_vars

\* C18: without a relay reservation the event loop issues no rendezvous
\* register, discover or unregister call: a RegisterRendezvous or
\* DiscoverRendezvous command received then is appended to its pending queue,
\* which sets the queue-age timestamp if it was unset, and the 120-second
\* tick re-registers nothing; with the reservation the command is issued
\* directly, and a namespace whose registration succeeded is recorded in
\* registered_namespaces.
C18_RendezvousNeedsReservation ==
    [][/\ rendezvous_calls' # <<>> => relay_reservation_active'
       /\ \A j \in DOMAIN rendezvous_calls' :
             rendezvous_calls'[j].op = "register" /\ rendezvous_calls'[j].ok
                => rendezvous_calls'[j].namespace \in registered_namespaces'
       /\ \A ns \in Namespaces :
             /\ OnRegisterRendezvous(ns)
                   => IF relay_reservation_active
                      THEN /\ Len(rendezvous_calls') = 1
                           /\ rendezvous_calls'[1].op = "register"
                           /\ rendezvous_calls'[1].namespace = ns
                           /\ pending_registrations' = pending_registrations
                           /\ pending_queued_at' = pending_queued_at
                      ELSE /\ pending_registrations' = Append(pending_registrations, ns)
                           /\ pending_queued_at' = IF pending_queued_at = <<>>
                                                   THEN <<clock>> ELSE pending_queued_at
                           /\ registered_namespaces' = registered_namespaces
             /\ OnDiscoverRendezvous(ns)
                   => IF relay_reservation_active
                      THEN /\ Len(rendezvous_calls') = 1
                           /\ rendezvous_calls'[1].op = "discover"
                           /\ rendezvous_calls'[1].namespace = ns
                           /\ pending_discoveries' = pending_discoveries
                           /\ pending_queued_at' = pending_queued_at
                      ELSE /\ pending_discoveries' = Append(pending_discoveries, ns)
                           /\ pending_queued_at' = IF pending_queued_at = <<>>
                                                   THEN <<clock>> ELSE pending_queued_at
       /\ OnRendezvousTick /\ ~relay_reservation_active
             => rendezvous_calls' = <<>> /\ registered_namespaces' = registered_namespaces]_vars

\* the TTL cleanup of a tick
QueueCleanup ==
    /\ OnRendezvousTick
    /\ pending_registrations # <<>> \/ pending_discoveries # <<>>
    /\ pending_registrations' = <<>> /\ pending_discoveries' = <<>>

\* a tick when the queue-age timestamp is more than 600 s old clears the
\* queues and resets the timestamp
ExpiredQueuesCleared ==
    /\ OnRendezvousTick
    /\ pending_registrations # <<>> \/ pending_discoveries # <<>>
    /\ pending_queued_at # <<>>
    /\ clock - pending_queued_at[1] > PENDING_QUEUE_TTL_SECS
    => /\ pending_registrations' = <<>>
       /\ pending_discoveries' = <<>>
       /\ pending_queued_at' = <<>>

C18_Witness ==
    /\ ~relay_reservation_active
    /\ registered_namespaces # {}
    /\ pending_registrations # <<>>
    /\ pending_discoveries # <<>>
    /\ pending_queued_at # <<>> /\ pending_queued_at[1] < last_queued_at

(***************************************************************************)
(* reset_identity (commands/identity.rs) and wipe_all_data                 *)
(* (storage/disk.rs).  The call holds the identity lock from its first     *)
(* line to its last; while it sleeps after the revocation the event loop   *)
(* goes on handling what the swarm delivers.                               *)
(***************************************************************************)
\* DiskStorage::has_identity: load_keypair().is_ok()
has_identity == "identity_keypair" \in key_value

\* the rows of table community_documents: the engine saves every document it
\* holds
community_documents == DOMAIN documents \cup unloaded_documents

\* CrdtEngine::clear (variant: the documents stay in memory)
clear_nothing(docs) == docs

clear(docs) == EmptyTable

\* the statements of wipe_all_data that touch the tables kept here, in order
WipeOrder ==
    <<"key_value", "community_documents", "community_meta", "directory_entries",
      "dm_messages", "dm_conversations", "dm_message_fts", "app_meta">>

\* reset_identity up to the sleep that follows the revocation
reset_identity ==
    /\ ~reset_pending
    /\ IF identity = <<>>
       THEN /\ returned' = "no identity loaded"
            /\ sent' = <<>>
            /\ UNCHANGED reset_pending
       ELSE /\ returned' = "pending"
            /\ sent' = IF node_running
                       THEN <<[cmd |-> "SendMessage", topic |-> topic_for_directory]>>
                       ELSE <<>>
            /\ reset_pending' = TRUE
    /\ emitted' = <<>>
    /\ logged' = <<>>
    /\ published' = {}
    /\ UNCHANGED <<loopVars, dmVars, dirVars, documents, pending_join_role_guard, frontend,
                   actor_high, awaiting_first_merge, left_communities, kick_pending,
                   peerVars, relayVars, identity, key_value, app_meta, unloaded_documents,
                   community_meta, handlerVars, queryVars, swarmVars, stopVars, netVars>>

\* the rest of reset_identity: the node is shut down, the engine, the join
\* guard and the identity are cleared and wipe_all_data runs; it fails after
\* the first `done` of its statements unless it runs through, and
\* cleanup_legacy_files may fail after them
reset_identity_wipe(done, cleaned) ==
    LET wiped(table) == \E i \in 1..done : WipeOrder[i] = table
    IN  /\ reset_pending
        /\ reset_pending' = FALSE
        /\ sent' = IF node_running THEN <<[cmd |-> "Shutdown"]>> ELSE <<>>
        /\ node_running' = FALSE
        /\ seen_dm_ids' = {}
        /\ subscriptions' = {}
        /\ documents' = clear(documents)
        /\ pending_join_role_guard' = {}
        /\ identity' = <<>>
        /\ key_value' = IF wiped("key_value") THEN {} ELSE key_value
        /\ unloaded_documents' = IF wiped("community_documents")
                                 THEN {}
                                 ELSE community_documents \ DOMAIN documents'
        /\ community_meta' = IF wiped("community_meta") THEN {} ELSE community_meta
        /\ directory' = IF wiped("directory_entries") THEN EmptyTable ELSE directory
        /\ dm_messages' = IF wiped("dm_messages") THEN {} ELSE dm_messages
        /\ dm_conversations' = IF wiped("dm_conversations") THEN EmptyTable
                               ELSE dm_conversations
        /\ dm_message_fts' = IF wiped("dm_message_fts") /\ fts_enabled THEN {}
                             ELSE dm_message_fts
        /\ app_meta' = IF wiped("app_meta") THEN app_meta \cup {"legacy_migrated"}
                       ELSE app_meta
        /\ returned' = IF done = Len(WipeOrder) /\ cleaned THEN "ok"
                       ELSE "failed to wipe data"
        /\ emitted' = <<>>
        /\ logged' = <<>>
        /\ published' = {}
        /\ UNCHANGED <<fts_enabled, dm_appends, gossip_in, frontend, actor_high,
                       awaiting_first_merge, left_communities, kick_pending, peerVars,
                       relayVars, handlerVars, queryVars, swarmVars, stopVars, netVars>>

(***************************************************************************)
(* SpecReset: direct messages, profiles and communities come in, then the  *)
(* identity is reset.                                                      *)
(***************************************************************************)
\* the profile gossip of this specification: the verified profiles p1
\* announces under its name
ResetGossip ==
    {m \in ProfileGossip :
        /\ m.type = "ProfileAnnounce"
        /\ m.body.peer_id = "p1" /\ m.body.display_name = NameOf["p1"]
        /\ verify_announcement(m.body.public_key, m.body)
        /\ m.body.verification_proof # NoProof}

\* the direct messages of this specification: what p1 sends to the local peer
ResetDms == {DirectMessage("p1", LocalPeer, ts) : ts \in Timestamps}

InitReset ==
    /\ InitStorageEmpty
    /\ fts_enabled \in BOOLEAN
    /\ frontend = "tauri"
    /\ actor_high.created /\ ~actor_high.placeholder

NextReset ==
    \/ \E dm \in ResetDms : OnDirectMessage(topic_for_dm_inbox(LocalPeer), dm)
    \/ \E now \in Timestamps : send_dm("p1", now)
    \/ \E m \in ResetGossip : GossipDeliver(m)
    \/ OnProfileAnnounce
    \/ \E c \in CommunityIds : CreateCommunity(c)
    \/ reset_identity
    \/ \E done \in 0..Len(WipeOrder), cleaned \in BOOLEAN : reset_identity_wipe(done, cleaned)

SpecReset == InitReset /\ [][NextReset]_vars

FullProofs ==
    {<<proof>> : proof \in {[metrics_hash |-> "mh", signature |-> "ps", timestamp |-> MaxTs,
                              score |-> "0.9"],
                             [metrics_hash |-> "mh", signature |-> "ps", timestamp |-> MaxTs,
                              score |-> "0.1"],
                             [metrics_hash |-> "", signature |-> "ps", timestamp |-> MaxTs,
                              score |-> "0.9"]}}

\* names and bios are free text: the separator of the payload may be in them
TamperBodies ==
    [peer_id : RemotePeers, display_name : {"amy", "amy||x"}, bio : {"hi", "x||hi"},
     public_key : {PublicKeyHex[k] : k \in Keys}, timestamp : 1..(MaxTs + 1),
     verification_proof : {NoProof} \cup FullProofs]

\* the fields two announcements differ in; the signature is none of them
DifferingFields(a, b) == {f \in DOMAIN b : a[f] # b[f]}

\* the holder of key signs body and publishes the announcement
PublishAnnouncement(key, body) ==
    /\ node_running
    /\ gossip_in = <<>>
    /\ gossip_in' = <<ProfileAnnounce(WithSignature(body, sign_announcement(key, body)))>>
    /\ emitted' = <<>>
    /\ logged' = <<>>
    /\ sent' = <<>>
    /\ UNCHANGED <<loopVars, dmVars, directory, syncVars, cmdVars, peerVars, relayVars,
                   resetVars, handlerVars, queryVars, swarmVars, stopVars, netVars>>

\* the fields of the announcement in flight are replaced, the signature stays
TamperAnnouncement(body) ==
    /\ gossip_in # <<>>
    /\ gossip_in' = <<ProfileAnnounce(WithSignature(body, gossip_in[1].body.signature))>>
    /\ emitted' = <<>>
    /\ logged' = <<>>
    /\ sent' = <<>>
    /\ UNCHANGED <<loopVars, dmVars, directory, syncVars, cmdVars, peerVars, relayVars,
                   resetVars, handlerVars, queryVars, swarmVars, stopVars, netVars>>

\* the swarm drops the message
DropAnnouncement ==
    /\ gossip_in # <<>>
    /\ gossip_in' = <<>>
    /\ emitted' = <<>>
    /\ logged' = <<>>
    /\ sent' = <<>>
    /\ UNCHANGED <<loopVars, dmVars, directory, syncVars, cmdVars, peerVars, relayVars,
                   resetVars, handlerVars, queryVars, swarmVars, stopVars, netVars>>

InitTamper ==
    /\ InitStorageEmpty
    /\ fts_enabled = TRUE
    /\ frontend = "tauri"
    /\ actor_high.created /\ ~actor_high.placeholder

NextTamper ==
    \/ \E key \in Keys, body \in TamperBodies : PublishAnnouncement(key, body)
    \/ \E body \in TamperBodies : TamperAnnouncement(body)
    \/ DropAnnouncement

SpecTamper == InitTamper /\ [][NextTamper]_vars

\* the announcement in flight carries the signature its signer made of its
\* fields, and names the signer's public key
SignedByItsKey(a) ==
    \E k \in Keys : a.signature = sign_announcement(k, a) /\ a.public_key = PublicKeyHex[k]

\* C21: verify_announcement(pk, a) is true when a.signature =
\* sign_announcement(keypair, a) and pk is the public key of the keypair; it
\* is false once any single field of the announcement (peer_id, display_name,
\* bio, public_key, timestamp or any part of the verification proof) is
\* changed and the signature kept; and two announcements that differ in a
\* field never have the same signed payload.
C21_SignatureCoversEveryField ==
    [][gossip_in # <<>> /\ gossip_in' # <<>>
         => LET a == gossip_in[1].body
                b == gossip_in'[1].body
            IN  /\ SignedByItsKey(b) => verify_announcement(b.public_key, b)
                /\ SignedByItsKey(a) /\ b.signature = a.signature
                      /\ Cardinality(DifferingFields(a, b)) = 1
                      => ~verify_announcement(b.public_key, b)
                /\ DifferingFields(a, b) # {}
                      => AnnouncementPayloadOf(a) # AnnouncementPayloadOf(b)]_vars

(***************************************************************************)
(* SpecInvite: the remote peer p1 holds a community; the local peer joins  *)
(* it by invite, p1 answers a RequestSync with its snapshot, and the local *)
(* event loop merges the offer.                                            *)
(***************************************************************************)
\* the RequestSync handler as p1 runs it, for a request of the local peer:
\* the offer for the community is what the swarm hands the local loop next
PeerOnRequestSync(community_id) ==
    /\ node_running
    /\ topic_for_sync \in subscriptions
    /\ has_community(peer_documents, community_id)
    /\ gossip_in = <<>>
    /\ gossip_in' = <<DocumentOffer(community_id, get_doc_bytes(peer_documents, community_id))>>
    /\ emitted' = <<>>
    /\ logged' = <<>>
    /\ sent' = <<>>
    /\ published' = {}
    /\ UNCHANGED <<loopVars, dmVars, directory, documents, pending_join_role_guard,
                   frontend, actor_high, awaiting_first_merge, left_communities, cmdVars,
                   peerVars, relayVars, resetVars, handlerVars, queryVars, swarmVars,
                   stopVars, netVars>>

InitInvite ==
    /\ InitStorageEmpty
    /\ fts_enabled = TRUE
    /\ frontend \in {"tauri", "dev_server"}

NextInvite ==
    \/ \E c \in CommunityIds : EngineCreateCommunity("p1", c)
    \/ \E c \in CommunityIds, ch \in {"ch_a", "ch_b"} : EngineCreateChannel("p1", c, ch)
    \/ \E c \in CommunityIds : JoinCommunity(c)
    \/ \E c \in CommunityIds : DevJoinCommunity(c)
    \/ \E c \in CommunityIds : PeerOnRequestSync(c)
    \/ OnDocumentOffer

SpecInvite == InitInvite /\ [][NextInvite]_vars

\* C22: invite join end to end: the local peer, holding no document for the
\* community, joins with the invite; p1 answers a RequestSync with a
\* DocumentOffer and the local peer merges it.  Then get_channels returns
\* exactly the channels of p1's community (for a fresh community the one
\* channel general at position 0), and the local peer sees p1's members.
C22_JoinerSeesInvitersCommunity ==
    [][/\ Handling("DocumentOffer")
       /\ emitted' # <<>>
       => LET cid == gossip_in[1].body.community_id
              offered == gossip_in[1].body.doc_bytes.doc
          IN  /\ document_get_channels(documents'[cid]) = document_get_channels(offered)
              /\ offered = init_community_doc("p1")
                    => document_get_channels(documents'[cid])
                          = <<[id |-> "ch_general", position |-> 0]>>
              /\ get_members(peer_documents, cid) \subseteq get_members(documents', cid)]_vars

(***************************************************************************)
(* SpecMalformed: the sync protocol of SpecSync, with payloads that do not *)
(* deserialize among what remote peers publish.                            *)
(***************************************************************************)
\* a payload serde_json::from_slice rejects: not JSON, or a variant the
\* receiver's SyncMessage or GossipMessage does not have
Undecodable(topic) == [type |-> "Undecodable", topic |-> topic, body |-> <<>>]

UndecodableTraffic ==
    {Undecodable(t) : t \in {topic_for_sync, topic_for_directory, topic_for_dm_inbox(LocalPeer)}
                              \cup {topic_for_presence(c) : c \in CommunityIds}}

\* neither `if let Ok(sync_msg)` nor `if let Ok(gossip_msg)` matches: the
\* handler falls through to the next turn of the loop
OnUndecodable ==
    /\ Handling("Undecodable")
    /\ gossip_in' = <<>>
    /\ emitted' = <<>>
    /\ logged' = <<>>
    /\ sent' = <<>>
    /\ published' = {}
    /\ UNCHANGED <<loopVars, dmVars, directory, documents, pending_join_role_guard,
                   frontend, actor_high, awaiting_first_merge, left_communities, cmdVars,
                   peerVars, relayVars, resetVars, handlerVars, queryVars, swarmVars,
                   stopVars, netVars>>

NextMalformed ==
    \/ NextSync
    \/ \E m \in UndecodableTraffic : SyncDeliver(m)
    \/ OnUndecodable

SpecMalformed == InitSync /\ [][NextMalformed]_vars

\* the message the loop is about to handle does not deserialize, or is an
\* offer for a loaded community whose bytes do not load
MalformedInFlight ==
    /\ gossip_in # <<>>
    /\ \/ gossip_in[1].type = "Undecodable"
       \/ /\ gossip_in[1].type = "DocumentOffer"
          /\ has_community(documents, gossip_in[1].body.community_id)
          /\ ~gossip_in[1].body.doc_bytes.loads

COMMAND_QUEUE_CAPACITY == 256

\* one step of a handler; `when` says whether it is inside `if let Some(handle)`
\* ("handle"), inside its else branch ("no_handle"), or outside both
Lock(l) == [op |-> "lock", x |-> l, when |-> "always"]
Unlock(l) == [op |-> "unlock", x |-> l, when |-> "always"]
Mutate(what) == [op |-> "mutate", x |-> what, when |-> "always"]
IfHandle == [op |-> "if_handle", x |-> "", when |-> "always"]
TakeHandle == [op |-> "take_handle", x |-> "", when |-> "always"]
\* mutation of Send: the command is sent whether there is a handle or not
Send_without_handle(cmd, topic) ==
    [op |-> "send", x |-> [cmd |-> cmd, topic |-> topic], when |-> "always"]
\* handle.command_tx.send(..).await inside `if let Some(ref handle) = *node_handle`
Send(cmd, topic) ==
    [op |-> "send", x |-> [cmd |-> cmd, topic |-> topic], when |-> "handle"]
InBlock(ins) == [ins EXCEPT !.when = "handle"]
ReturnErrWithoutHandle(message) == [op |-> "return_err", x |-> message, when |-> "no_handle"]
AwaitTask == [op |-> "await_task", x |-> "", when |-> "handle"]
Spawn == [op |-> "spawn", x |-> "", when |-> "always"]

\* how many commands the frontend invokes in one run
MaxCalls == 3

\* the arguments the frontend calls the commands with
CallCommunity == "c1"
CallPeer == "p1"
NewSettings == {[status |-> "online", display_name |-> NameOf[LocalPeer]],
                [status |-> "idle", display_name |-> NameOf[LocalPeer]],
                [status |-> "idle", display_name |-> "zed"]}
NewRelay == "relay2"
\* format!("{}:{}", community_id, channel_id); the ids are lists of characters
VoiceKey(community_id, channel_id) == community_id \o <<":">> \o channel_id

VoiceChannel == VoiceKey(<<"c1">>, <<"ch_general">>)

\* entry(key).or_insert_with(Vec::new), retain(|p| p.peer_id != peer_id), push
join_participants(vc, key, peer_id) ==
    LET participants == IF key \in DOMAIN vc THEN vc[key] ELSE <<>>
    IN  [k \in DOMAIN vc \cup {key} |->
           IF k = key
           THEN Append(SelectSeq(participants, LAMBDA p : p # peer_id), peer_id)
           ELSE vc[k]]

\* retain(|p| p.peer_id != peer_id) on the list of key, if there is one, and
\* vc.remove(key) if the list is empty then
leave_participants(vc, key, peer_id) ==
    LET kept == [k \in DOMAIN vc |->
                   IF k = key THEN SelectSeq(vc[k], LAMBDA p : p # peer_id) ELSE vc[k]]
    IN  [k \in {j \in DOMAIN vc : j # key \/ kept[j] # <<>>} |-> kept[k]]
topic_for_voice == "dusk/community/c1/channel/ch_general/voice"

\* the Subscribe or Unsubscribe commands for the channels of a community,
\* sent while the engine lock taken for get_channels is held
ChannelSends(cmd, community_id) ==
    <<InBlock(Lock("crdt_engine"))>>
      \o (IF get_channels(documents, community_id) = {}
          THEN <<>>
          ELSE <<Send(cmd, topic_for_messages(community_id, "ch_general")),
                 Send(cmd, topic_for_typing(community_id, "ch_general"))>>)

\* announce_profile (commands/identity.rs)
announce_profile ==
    <<Lock("node_handle"), IfHandle, Send("SendMessage", topic_for_directory),
      Unlock("node_handle")>>

\* start_node (commands/chat.rs): the topics and namespaces of the node itself
\* and of every loaded community
start_node ==
    <<Lock("identity"), Spawn, Unlock("identity"), Lock("node_handle"), IfHandle,
      Send("Subscribe", topic_for_sync), Send("Subscribe", topic_for_directory),
      Send("SendMessage", topic_for_directory), Unlock("node_handle"),
      Lock("node_handle"), IfHandle>>
      \o (IF has_community(documents, CallCommunity)
          THEN <<Send("Subscribe", topic_for_messages(CallCommunity, "ch_general")),
                 Send("Subscribe", topic_for_typing(CallCommunity, "ch_general")),
                 Send("Subscribe", topic_for_presence(CallCommunity)),
                 Send("RegisterRendezvous", "dusk/community/" \o CallCommunity)>>
          ELSE <<>>)
      \o <<Send("Subscribe", topic_for_dm_inbox(LocalPeer)),
           Send("RegisterRendezvous", "dusk/peer/" \o LocalPeer),
           Send("RegisterRendezvous", "dusk/peers"),
           Send("BroadcastPresence", "online")>>

\* the handlers, each as the steps of its success path
Program(cmd, arg) ==
    CASE cmd = "send_message" ->
           <<Lock("identity"), Lock("crdt_engine"), Mutate("append_message"),
             Unlock("crdt_engine"), Lock("node_handle"), IfHandle,
             Send("SendMessage", topic_for_messages(CallCommunity, "ch_general"))>>
      [] cmd = "send_dm" ->
           <<Lock("identity"), Unlock("identity"), Mutate("append_dm_message"),
             Mutate("save_dm_conversation"), Lock("node_handle"), IfHandle,
             Send("SendMessage", topic_for_dm(LocalPeer, CallPeer)),
             Send("SendMessage", topic_for_dm_inbox(CallPeer)),
             Send("DiscoverRendezvous", "dusk/peer/" \o CallPeer)>>
      [] cmd = "delete_message" ->
           <<Lock("identity"), Unlock("identity"), Lock("crdt_engine"),
             Mutate("delete_message"), Unlock("crdt_engine"), Lock("node_handle"), IfHandle,
             InBlock(Lock("crdt_engine")),
             Send("SendMessage", topic_for_messages(CallCommunity, "ch_general"))>>
      [] cmd = "kick_member" ->
           <<Lock("identity"), Unlock("identity"), Lock("crdt_engine"), Unlock("crdt_engine"),
             Lock("crdt_engine"), Mutate("remove_member"), Unlock("crdt_engine"),
             Lock("node_handle"), IfHandle,
             Send("SendMessage", topic_for_presence(CallCommunity))>>
      [] cmd = "create_channel" ->
           <<Lock("crdt_engine"), Mutate("create_channel"), Unlock("crdt_engine"),
             Lock("node_handle"), IfHandle,
             Send("Subscribe", topic_for_messages(CallCommunity, "ch_a")),
             Send("Subscribe", topic_for_typing(CallCommunity, "ch_a"))>>
      [] cmd = "create_community" ->
           <<Lock("identity"), Unlock("identity"), Lock("crdt_engine"),
             Mutate("create_community"), Mutate("save_community_meta"),
             Unlock("crdt_engine"), Lock("node_handle"), IfHandle,
             Send("Subscribe", topic_for_presence(CallCommunity)),
             InBlock(Lock("crdt_engine")),
             Send("Subscribe", topic_for_messages(CallCommunity, "ch_general")),
             Send("Subscribe", topic_for_typing(CallCommunity, "ch_general")),
             Send("RegisterRendezvous", "dusk/community/" \o CallCommunity)>>
      [] cmd = "leave_community" ->
           <<Lock("node_handle"), IfHandle>> \o ChannelSends("Unsubscribe", CallCommunity)
             \o <<Send("Unsubscribe", topic_for_presence(CallCommunity))>>
      [] cmd = "save_settings" ->
           <<Lock("identity")>>
             \o (IF arg.display_name # settings.profile_name
                 THEN <<Mutate("identity_save")>> \o announce_profile
                 ELSE <<>>)
             \o <<Unlock("identity")>>
             \o (IF arg.status # settings.status
                 THEN <<Lock("node_handle"), IfHandle, Send("BroadcastPresence", arg.status),
                        Unlock("node_handle")>>
                 ELSE <<>>)
             \o <<Mutate("save_settings")>>
      [] cmd = "set_relay_address" ->
           <<Lock("node_handle"), TakeHandle, Send("Shutdown", ""), AwaitTask,
             Unlock("node_handle"), Mutate("save_relay_address")>> \o start_node
      [] cmd = "delete_dm_conversation" ->
           <<Lock("identity"), Unlock("identity"), Lock("node_handle"), IfHandle,
             Send("Unsubscribe", topic_for_dm(LocalPeer, CallPeer)),
             Mutate("remove_dm_conversation")>>
      [] cmd = "join_voice_channel" ->
           <<Lock("identity"), Unlock("identity"), Lock("node_handle"), IfHandle,
             Send("Subscribe", topic_for_voice), Send("SendMessage", topic_for_voice),
             ReturnErrWithoutHandle("Node not running - cannot join voice channel"),
             Lock("voice_channels"), Mutate("voice_join"), Unlock("voice_channels")>>
      [] cmd = "leave_voice_channel" ->
           <<Lock("identity"), Unlock("identity"), Lock("node_handle"), IfHandle,
             Send("SendMessage", topic_for_voice), Send("Unsubscribe", topic_for_voice),
             ReturnErrWithoutHandle("Node not running - cannot leave voice channel"),
             Lock("voice_channels"), Mutate("voice_leave"), Unlock("voice_channels")>>
      [] cmd = "stop_node" ->
           <<Lock("node_handle"), TakeHandle, Send("BroadcastPresence", "offline"),
             Send("Shutdown", ""), AwaitTask>>
      [] OTHER -> start_node

\* the message send_message appends and delete_message deletes
CallMessage == ChatMessage(LocalPeer, MaxTs)

\* what the tables, documents and maps hold after a write of a handler
Written ==
    [documents |-> documents, community_meta |-> community_meta,
     dm_messages |-> dm_messages, dm_conversations |-> dm_conversations,
     dm_message_fts |-> dm_message_fts, settings |-> settings,
     voice_channels |-> voice_channels]

After(what, arg) ==
    LET conv == dm_conversation_id(LocalPeer, CallPeer)
        dm == DirectMessage(LocalPeer, CallPeer, MaxTs)
        stored == append_dm_message(conv, dm)
        found == {e \in MessageEntries(documents[CallCommunity]) : e.id = CallMessage.id}
    IN  CASE what = "append_message" ->
               [Written EXCEPT
                  !.documents = append_message(documents, CallCommunity, CallMessage).documents]
          [] what = "delete_message" ->
               [Written EXCEPT
                  !.documents = [documents EXCEPT ![CallCommunity].deleted =
                                    @ \cup {CHOOSE e \in found : TRUE}]]
          [] what = "remove_member" ->
               [Written EXCEPT !.documents = remove_member(documents, CallCommunity, CallPeer)]
          [] what = "create_channel" ->
               [Written EXCEPT
                  !.documents = create_channel(documents, CallCommunity, LocalPeer, "ch_a")]
          [] what = "create_community" ->
               [Written EXCEPT
                  !.documents = create_community(documents, CallCommunity, LocalPeer)]
          [] what = "save_community_meta" ->
               [Written EXCEPT !.community_meta = @ \cup {CallCommunity}]
          [] what = "append_dm_message" ->
               [Written EXCEPT !.dm_messages = stored.messages,
                               !.dm_message_fts = stored.fts,
                               !.dm_conversations = stored.conversations]
          [] what = "save_dm_conversation" ->
               [Written EXCEPT
                  !.dm_conversations =
                      save_dm_conversation(dm_conversations, conv,
                          [peer_id |-> CallPeer,
                           display_name |-> IF conv \in DOMAIN dm_conversations
                                            THEN dm_conversations[conv].display_name
                                            ELSE dm.from_display_name,
                           last_message_time |-> MaxTs,
                           unread_count |-> IF conv \in DOMAIN dm_conversations
                                            THEN dm_conversations[conv].unread_count
                                            ELSE 0])]
          [] what = "remove_dm_conversation" ->
               [Written EXCEPT
                  !.dm_messages = {r \in dm_messages : r.conversation_id # conv},
                  !.dm_message_fts = IF fts_enabled
                                     THEN {f \in dm_message_fts : f[2] # conv}
                                     ELSE dm_message_fts,
                  !.dm_conversations = [k \in DOMAIN dm_conversations \ {conv} |->
                                          dm_conversations[k]]]
          [] what = "identity_save" ->
               [Written EXCEPT !.settings.profile_name = arg.display_name]
          [] what = "save_settings" ->
               [Written EXCEPT !.settings.status = arg.status,
                               !.settings.display_name = arg.display_name]
          [] what = "save_relay_address" ->
               [Written EXCEPT !.settings.custom_relay_addr = NewRelay]
          [] what = "voice_join" ->
               [Written EXCEPT !.voice_channels = join_participants(@, VoiceChannel, LocalPeer)]
          [] OTHER ->
               [Written EXCEPT !.voice_channels = leave_participants(@, VoiceChannel, LocalPeer)]

\* the checks a handler makes before its first write: a call that fails one
\* returns the error and has done nothing
Accepted(cmd) ==
    CASE cmd = "send_message" ->
           /\ "ch_general" \in get_channels(documents, CallCommunity)
           /\ Cardinality({e \in documents[CallCommunity].messages : e.site = LocalPeer})
                 < MaxLocalElems
      [] cmd = "delete_message" ->
           /\ has_community(documents, CallCommunity)
           /\ \E e \in MessageEntries(documents[CallCommunity]) :
                 e.id = CallMessage.id /\ may_delete(e, LocalPeer)
      [] cmd = "kick_member" -> KickAllowed(documents, CallCommunity, CallPeer)
      [] cmd = "create_channel" ->
           /\ has_community(documents, CallCommunity)
           /\ "ch_a" \notin get_channels(documents, CallCommunity)
      [] cmd = "create_community" -> ~has_community(documents, CallCommunity)
      [] OTHER -> TRUE

Commands ==
    {"send_message", "send_dm", "delete_message", "kick_member", "create_channel",
     "create_community", "leave_community", "save_settings", "set_relay_address",
     "delete_dm_conversation", "join_voice_channel", "leave_voice_channel", "stop_node",
     "start_node"}

\* what the steps of handlers leave alone
HandlerFrame ==
    /\ emitted' = <<>>
    /\ logged' = <<>>
    /\ published' = {}
    /\ UNCHANGED <<seen_dm_ids, fts_enabled, dm_appends, dirVars, pending_join_role_guard,
                   frontend, actor_high, awaiting_first_merge, left_communities,
                   kick_pending, peerVars, relayVars, storedVars, queryVars, swarmVars,
                   netVars>>

\* the frontend invokes a command: no other handler is running (the count of
\* the calls is kept by the specification)
Begin(cmd, arg) ==
    /\ call = <<>>
    /\ IdentityLoaded
    /\ IF Accepted(cmd)
       THEN /\ call' = <<[cmd |-> cmd, arg |-> arg, prog |-> Program(cmd, arg), pc |-> 1,
                          handle |-> FALSE, had_handle |-> node_running, done |-> <<>>]>>
            /\ returned' = "pending"
       ELSE /\ call' = <<>>
            /\ returned' = "error"
    /\ sent' = <<>>
    /\ HandlerFrame
    /\ UNCHANGED <<subscriptions, node_running, dm_messages, dm_conversations,
                   dm_message_fts, documents, community_meta, locks, command_queue,
                   loop_at, settings, voice_channels, stop_requested>>

\* a Subscribe or Unsubscribe command takes effect as it is enqueued
SubscriptionsAfter(command) ==
    CASE command.cmd = "Subscribe" -> subscriptions \cup {command.topic}
      [] command.cmd = "Unsubscribe" -> subscriptions \ {command.topic}
      [] OTHER -> subscriptions

\* the handler in progress does its next step, once the lock is free or the
\* queue has room
Step ==
    /\ call # <<>>
    /\ call[1].pc <= Len(call[1].prog)
    /\ LET c == call[1]
           ins == c.prog[c.pc]
           runs == \/ ins.when = "always"
                   \/ ins.when = "handle" /\ c.handle
                   \/ ins.when = "no_handle" /\ ~c.handle
           next == [c EXCEPT !.pc = @ + 1,
                             !.done = IF runs THEN Append(@, [op |-> ins.op, x |-> ins.x])
                                      ELSE @]
           written == IF runs /\ ins.op = "mutate" THEN After(ins.x, c.arg) ELSE Written
       IN  /\ runs /\ ins.op = "lock" => locks[ins.x] = "free"
           /\ runs /\ ins.op = "send" => command_queue < COMMAND_QUEUE_CAPACITY
           /\ runs /\ ins.op = "await_task" => loop_at = "stopped"
           /\ locks' = IF runs /\ ins.op = "lock" THEN [locks EXCEPT ![ins.x] = "handler"]
                       ELSE IF runs /\ ins.op = "unlock" THEN [locks EXCEPT ![ins.x] = "free"]
                       ELSE IF runs /\ ins.op = "return_err"
                            THEN [l \in DOMAIN locks |->
                                    IF locks[l] = "handler" THEN "free" ELSE locks[l]]
                            ELSE locks
           /\ call' = IF runs /\ ins.op = "return_err" THEN <<>>
                      ELSE IF runs /\ ins.op \in {"if_handle", "take_handle"}
                           THEN <<[next EXCEPT !.handle = node_running]>>
                           ELSE <<next>>
           /\ returned' = IF runs /\ ins.op = "return_err" THEN ins.x ELSE returned
           /\ node_running' = IF runs /\ ins.op = "take_handle" THEN FALSE
                              ELSE IF runs /\ ins.op = "spawn" THEN TRUE
                              ELSE node_running
           /\ loop_at' = IF runs /\ ins.op = "spawn" THEN "select" ELSE loop_at
           /\ command_queue' = IF runs /\ ins.op = "send" THEN command_queue + 1
                               ELSE IF runs /\ ins.op = "spawn" THEN 0
                               ELSE command_queue
           /\ sent' = IF runs /\ ins.op = "send" THEN Append(sent, ins.x) ELSE sent
           /\ subscriptions' = IF runs /\ ins.op = "send" THEN SubscriptionsAfter(ins.x)
                               ELSE IF runs /\ ins.op = "spawn" THEN {}
                               ELSE subscriptions
           /\ documents' = written.documents
           /\ community_meta' = written.community_meta
           /\ dm_messages' = written.dm_messages
           /\ dm_conversations' = written.dm_conversations
           /\ dm_message_fts' = written.dm_message_fts
           /\ settings' = written.settings
           /\ voice_channels' = written.voice_channels
    /\ UNCHANGED <<calls_made, stop_requested>>
    /\ HandlerFrame

\* the handler returns Ok: the guards it still holds are dropped
Return ==
    /\ call # <<>>
    /\ call[1].pc > Len(call[1].prog)
    /\ call' = <<>>
    /\ returned' = "ok"
    /\ locks' = [l \in DOMAIN locks |-> IF locks[l] = "handler" THEN "free" ELSE locks[l]]
    /\ stop_requested' = (stop_requested /\ call[1].cmd # "stop_node")
    /\ HandlerFrame
    /\ UNCHANGED <<sent, subscriptions, node_running, dm_messages, dm_conversations,
                   dm_message_fts, documents, community_meta, command_queue, loop_at,
                   settings, voice_channels, calls_made>>

(***************************************************************************)
(* The event loop next to the handlers (node/mod.rs, start): it receives   *)
(* the commands, and takes the engine lock to merge a snapshot.            *)
(***************************************************************************)
\* the handler in progress has sent Shutdown
ShutdownSent ==
    /\ call # <<>>
    /\ \E i \in DOMAIN call[1].done :
          call[1].done[i].op = "send" /\ call[1].done[i].x.cmd = "Shutdown"

\* cmd = command_rx.recv(): Shutdown, the last command a handler sends before it
\* awaits the task, ends the loop
LoopReceive ==
    /\ loop_at = "select"
    /\ command_queue > 0
    /\ command_queue' = command_queue - 1
    /\ loop_at' = IF ShutdownSent /\ command_queue = 1 THEN "stopped" ELSE "select"
    /\ UNCHANGED <<loopVars, outVars, dmVars, dirVars, syncVars, cmdVars, peerVars, relayVars,
                   resetVars, call, locks, settings, voice_channels, calls_made, queryVars,
                   swarmVars, stopVars, netVars>>

\* the swarm yields a DocumentOffer and the loop goes on to lock the engine
LoopTakeOffer(m) ==
    /\ loop_at = "select"
    /\ m.topic \in subscriptions
    /\ gossip_in = <<>>
    /\ gossip_in' = <<m>>
    /\ loop_at' = "awaiting_engine"
    /\ UNCHANGED <<loopVars, outVars, dmVars, directory, syncVars, cmdVars, peerVars,
                   relayVars, resetVars, call, locks, command_queue, settings,
                   voice_channels, calls_made, queryVars, swarmVars, stopVars, netVars>>

\* the DocumentOffer handler once it has the engine, for a community that is
\* not marked for role hardening
LoopMergeOffer ==
    /\ loop_at = "awaiting_engine"
    /\ locks["crdt_engine"] = "free"
    /\ LET snapshot == gossip_in[1].body
           community_id == snapshot.community_id
           merge_result == IF has_community(documents, community_id)
                           THEN merge_remote_doc(documents, community_id, snapshot.doc_bytes)
                           ELSE [ok |-> FALSE, documents |-> documents]
       IN  /\ community_id \notin pending_join_role_guard
           /\ documents' = merge_result.documents
           /\ subscriptions' = IF merge_result.ok
                               THEN subscriptions \cup {topic_for_presence(community_id)}
                                      \cup ChannelTopics(merge_result.documents, community_id)
                               ELSE subscriptions
           /\ emitted' = IF merge_result.ok
                         THEN <<[kind |-> "SyncComplete", community_id |-> community_id]>>
                         ELSE <<>>
           /\ logged' = IF merge_result.ok THEN <<>>
                        ELSE IF has_community(documents, community_id)
                             THEN <<"failed to merge remote doc for " \o community_id>>
                             ELSE <<"ignoring document offer for unknown community "
                                      \o community_id>>
    /\ gossip_in' = <<>>
    /\ loop_at' = "select"
    /\ published' = {}
    /\ UNCHANGED <<seen_dm_ids, node_running, sent, dmVars, directory,
                   pending_join_role_guard, frontend, actor_high, awaiting_first_merge,
                   left_communities, cmdVars, peerVars, relayVars, resetVars, call, locks,
                   command_queue, settings, voice_channels, calls_made, queryVars,
                   swarmVars, stopVars, netVars>>

\* the snapshot of the local peer's community after p1 has joined it
JoinedSnapshot ==
    DocumentOffer(CallCommunity,
                  [loads |-> TRUE,
                   doc |-> [init_community_doc(LocalPeer) EXCEPT
                               !.guests[LocalPeer] = "member"]])

(***************************************************************************)
(* SpecOrder: the handlers one at a time, the event loop draining the      *)
(* queue in between.                                                       *)
(***************************************************************************)
\* a command is invoked while at most this many earlier ones are still queued
MaxBacklog == 0

InitOrder ==
    /\ InitStorageEmpty
    /\ fts_enabled = TRUE
    /\ frontend = "tauri"
    /\ actor_high = [created |-> TRUE, placeholder |-> FALSE]

\* one more call, while the bounds allow it
Invoke(cmd, arg) ==
    /\ command_queue <= MaxBacklog
    /\ calls_made < MaxCalls
    /\ calls_made' = calls_made + 1
    /\ Begin(cmd, arg)

NextOrder ==
    \/ \E cmd \in Commands \ {"save_settings"} :
          Invoke(cmd, [status |-> "online", display_name |-> NameOf[LocalPeer]])
    \/ \E arg \in NewSettings : Invoke("save_settings", arg)
    \/ Step
    \/ Return
    \/ LoopReceive
    \/ LoopTakeOffer(JoinedSnapshot)
    \/ LoopMergeOffer

SpecOrder == InitOrder /\ [][NextOrder]_vars

(***************************************************************************)
(* SpecLocks: handlers invoked one after the other while the event loop is *)
(* slow to drain the queue, and takes the engine lock for snapshots.       *)
(***************************************************************************)
LockCommands == {"create_community", "leave_community", "send_message"}

NextLocks ==
    \/ \E cmd \in LockCommands :
          /\ Begin(cmd, [status |-> "online", display_name |-> NameOf[LocalPeer]])
          /\ UNCHANGED calls_made
    \/ Step
    \/ Return
    \/ LoopReceive
    \/ LoopTakeOffer(JoinedSnapshot)
    \/ LoopMergeOffer

SpecLocks == InitOrder /\ [][NextLocks]_vars

\* the handler in progress is at a send on the command queue
AtSend ==
    /\ call # <<>>
    /\ call[1].pc <= Len(call[1].prog)
    /\ call[1].prog[call[1].pc].op = "send"
    /\ call[1].handle

\* the handler waits for room in the queue with the engine lock held, and the
\* event loop, the only receiver, waits for the engine lock
HandlerAndLoopStuck ==
    /\ AtSend
    /\ command_queue = COMMAND_QUEUE_CAPACITY
    /\ locks["crdt_engine"] = "handler"
    /\ loop_at = "awaiting_engine"

\* C25: no handler holds a lock on shared state, in particular not the engine
\* lock the event loop takes too, while it awaits a send on the bounded
\* command queue (node_handle, behind which the sender itself sits, aside);
\* so in no interleaving, the queue of capacity 256 full or not, does a handler
\* wait for room in the queue while the event loop waits for a lock it holds.
C25_NoLockHeldAcrossSend ==
    /\ AtSend => \A l \in DOMAIN locks \ {"node_handle"} : locks[l] # "handler"
    /\ ~HandlerAndLoopStuck

\* the handlers that write durable state and have a network side effect
WritingCommands ==
    {"send_message", "send_dm", "delete_message", "kick_member", "create_channel",
     "save_settings", "set_relay_address", "delete_dm_conversation"}

\* C24: in every handler that both changes durable state and has a network
\* side effect (send_message, send_dm, delete_message, kick_member,
\* create_channel, save_settings, set_relay_address, delete_dm_conversation)
\* the write to the document or the storage is complete before the NodeCommand
\* is enqueued: no write of the handler comes after one of its sends.
C24_WritesBeforeSends ==
    call # <<>> /\ call[1].cmd \in WritingCommands
       => \A i, j \in DOMAIN call[1].done :
             call[1].done[i].op = "send" /\ call[1].done[j].op = "mutate" => j < i

\* the commands that start the node
StartingCommands == {"start_node", "set_relay_address"}

VoiceCommands == {"join_voice_channel", "leave_voice_channel"}

\* how many writes a list of steps has
Writes(steps) == Cardinality({i \in DOMAIN steps : steps[i].op = "mutate"})

\* the handler in progress, invoked while the node was not running, returns
Returns(stopped_call) ==
    /\ call # <<>>
    /\ call' = <<>>
    /\ ~call[1].had_handle
    /\ call[1].cmd \notin StartingCommands
    /\ stopped_call = call[1]

\* C26 as claimed: while the node is not running, every command that would
\* publish, subscribe or discover enqueues no NodeCommand and succeeds
\* silently, and its local change takes effect.
C26_SilentSuccessWhenStopped ==
    [][\A c \in {call[i] : i \in DOMAIN call} :
          Returns(c) => /\ sent' = <<>>
                        /\ command_queue' = 0
                        /\ returned' = "ok"
                        /\ Writes(c.done) = Writes(c.prog)]_vars

\* C26, amended: while the node is not running, no command other than those
\* that start the node enqueues a NodeCommand; the community, chat, dm and
\* settings commands return Ok and their local change takes effect; the voice
\* commands return the error "Node not running" and leave the voice map as it
\* was.
C26_NothingEnqueuedWhenStopped ==
    [][\A c \in {call[i] : i \in DOMAIN call} :
          Returns(c) => /\ sent' = <<>>
                        /\ command_queue' = 0
                        /\ IF c.cmd \in VoiceCommands
                           THEN /\ returned' \in
                                      {"Node not running - cannot join voice channel",
                                       "Node not running - cannot leave voice channel"}
                                /\ voice_channels' = voice_channels
                                /\ Writes(c.done) = 0
                           ELSE /\ returned' = "ok"
                                /\ Writes(c.done) = Writes(c.prog)]_vars

\* with the node stopped, a dm was sent and stored, and then joining a voice
\* channel was refused
C26_Witness ==
    /\ ~node_running
    /\ call = <<>>
    /\ returned = "Node not running - cannot join voice channel"
    /\ dm_messages # {}
    /\ sent = <<>>
    /\ command_queue = 0

(***************************************************************************)
(* SpecEngine: the methods of CrdtEngine (crdt/mod.rs) called one by one on *)
(* the engine of the local peer, next to the engine of the remote peer that *)
(* makes the snapshots.  persist writes the document named to the table     *)
(* community_documents, whose keys are those of documents.                  *)
(***************************************************************************)
\* the engine holds docs after the call and the caller gets result
EngineCall(docs, result) ==
    /\ documents' = docs
    /\ returned' = result
    /\ UNCHANGED <<loopVars, outVars, dmVars, dirVars, peerVars, pending_join_role_guard,
                   published, frontend, actor_high, awaiting_first_merge, left_communities,
                   kick_pending, relayVars, resetVars, handlerVars, queryVars, swarmVars,
                   stopVars, netVars>>

\* CrdtEngine::create_community
CallCreateCommunity(community_id, created_by) ==
    EngineCall(create_community(documents, community_id, created_by), "ok")

\* CrdtEngine::merge_remote_doc
CallMergeRemoteDoc(community_id, remote_bytes) ==
    LET merged == merge_remote_doc(documents, community_id, remote_bytes)
    IN  EngineCall(merged.documents,
                   IF merged.ok THEN "ok" ELSE "failed to load remote doc")

\* CrdtEngine::remove_community
CallRemoveCommunity(community_id) ==
    /\ has_community(documents, community_id)
    /\ EngineCall(remove_community(documents, community_id), "ok")

\* the bytes a caller can hold for a community: a snapshot of the remote
\* engine, or bytes that are no document
RemoteBytes(community_id) ==
    {GarbageBytes} \cup {get_doc_bytes(peer_documents, c) :
                            c \in {community_id} \cap DOMAIN peer_documents}

NextEngine ==
    \/ \E c \in CommunityIds : EngineCreateCommunity("p1", c)
    \/ \E p \in Creators, c \in CommunityIds, ch \in {"ch_a", "ch_b"} :
          EngineCreateChannel(p, c, ch)
    \/ \E p \in Creators, c \in CommunityIds, t \in Timestamps :
          EngineAppendMessage(p, c, ChatMessage(p, t))
    \/ \E c \in CommunityIds : CallCreateCommunity(c, LocalPeer)
    \/ \E c \in CommunityIds : \E b \in RemoteBytes(c) : CallMergeRemoteDoc(c, b)
    \/ \E c \in CommunityIds : CallRemoveCommunity(c)

SpecEngine == InitMerge /\ [][NextEngine]_vars

\* C27 as claimed: merge_remote_doc for a community that is not loaded is
\* rejected: it returns an error, inserts no document and persists nothing.
C27_UnknownCommunityRejected ==
    [][\A c \in CommunityIds : \A b \in RemoteBytes(c) :
          CallMergeRemoteDoc(c, b) /\ ~has_community(documents, c)
             => /\ returned' # "ok"
                /\ documents' = documents
                /\ community_documents' = community_documents]_vars

\* C27, amended: merge_remote_doc for a community that is not loaded rejects
\* only bytes that do not load (an error, no document inserted, nothing
\* persisted); a snapshot that loads is inserted as the local document and
\* persisted.  For a community that is loaded it merges the snapshot into the
\* local document and persists: nothing the local document or the snapshot
\* holds is lost.
C27_UnknownCommunityInserted ==
    [][\A c \in CommunityIds : \A b \in RemoteBytes(c) :
          CallMergeRemoteDoc(c, b)
             => IF ~b.loads
                THEN /\ returned' # "ok"
                     /\ documents' = documents
                     /\ community_documents' = community_documents
                ELSE /\ returned' = "ok"
                     /\ c \in community_documents'
                     /\ IF has_community(documents, c)
                        THEN /\ documents[c].messages \cup b.doc.messages
                                    = documents'[c].messages
                             /\ documents[c].channels \cup b.doc.channels
                                    = documents'[c].channels
                        ELSE ViewOf(documents', c) = ViewOf(peer_documents, c)]_vars

\* the local engine holds what the remote one made, without having created
\* the community: it came in by merge_remote_doc
C27_Witness ==
    /\ has_community(documents, "c1")
    /\ documents["c1"].rows[LocalPeer] = "absent"
    /\ ~documents["c1"].placeholder
    /\ documents["c1"] = peer_documents["c1"]
    /\ MessageEntries(documents["c1"]) # {}
    /\ returned = "ok"

\* C28: create_community fails when the community is already loaded and leaves
\* the existing document (channels, members, messages) unchanged; otherwise it
\* creates a document whose only member is the creator with roles [owner] and
\* whose only channel is general.
C28_CreateFailsWhenLoaded ==
    [][\A c \in CommunityIds :
          CallCreateCommunity(c, LocalPeer)
             => IF has_community(documents, c)
                THEN returned' # "ok" /\ ViewOf(documents', c) = ViewOf(documents, c)
                ELSE /\ returned' = "ok"
                     /\ get_members(documents', c)
                           = {[peer_id |-> LocalPeer, roles |-> <<"owner">>]}
                     /\ get_channels(documents', c) = {"ch_general"}]_vars

(***************************************************************************)
(* get_messages (crdt/document.rs): the page of a channel a reader asks     *)
(* for.  The list holds the messages in the order they were inserted; the   *)
(* timestamps are those the authors gave, in any order.                     *)
(***************************************************************************)
\* how many messages the channel holds
MaxLen == 3
\* the greatest timestamp of a message
MaxMessageTime == 3
\* the greatest limit a reader asks for
MaxLimit == 2

\* before: None or Some(timestamp)
BeforeArgs == {<<>>} \cup {<<t>> : t \in 1..(MaxMessageTime + 1)}

\* for i in (0..len).rev(): skip the messages at or after before, push, and
\* break once the result has limit elements
RECURSIVE get_messages_loop(_, _, _, _, _)
get_messages_loop(messages, i, before, limit, result) ==
    IF i = 0
    THEN result
    ELSE IF before # <<>> /\ messages[i].timestamp >= before[1]
         THEN get_messages_loop(messages, i - 1, before, limit, result)
         ELSE LET pushed == Append(result, messages[i])
              IN  IF Len(pushed) >= limit
                  THEN pushed
                  ELSE get_messages_loop(messages, i - 1, before, limit, pushed)

\* result.reverse()
reverse(result) == [i \in 1..Len(result) |-> result[Len(result) + 1 - i]]

get_messages(messages, before, limit) ==
    reverse(get_messages_loop(messages, Len(messages), before, limit, <<>>))

MessageFrame ==
    UNCHANGED <<loopVars, outVars, dmVars, dirVars, syncVars, cmdVars, peerVars, relayVars,
                resetVars, handlerVars, swarmVars, stopVars, netVars>>

\* document::append_message: the message goes to the end of the list
AppendToChannel(timestamp) ==
    /\ Len(channel_messages) < MaxLen
    /\ channel_messages' = Append(channel_messages,
                                  [id |-> Len(channel_messages) + 1, timestamp |-> timestamp])
    /\ UNCHANGED <<fetched, meta_created_by>>
    /\ MessageFrame

CallGetMessages(before, limit) ==
    /\ fetched' = <<get_messages(channel_messages, before, limit)>>
    /\ UNCHANGED <<channel_messages, meta_created_by>>
    /\ MessageFrame

NextMessages ==
    \/ \E t \in 1..MaxMessageTime : AppendToChannel(t)
    \/ \E before \in BeforeArgs, limit \in 0..MaxLimit : CallGetMessages(before, limit)

SpecMessages == InitMerge /\ [][NextMessages]_vars

\* the last k elements of a list
Last(list, k) == SubSeq(list, Len(list) - k + 1, Len(list))

\* C29: get_messages returns, for every channel content and every limit >= 0,
\* at most limit messages: exactly the last min(limit, n) messages of the list
\* among those with timestamp < before (all messages when before is absent),
\* in the order they are stored.
C29_LastMessagesBefore ==
    [][\A before \in BeforeArgs, limit \in 0..MaxLimit :
          CallGetMessages(before, limit)
             => LET among == SelectSeq(channel_messages,
                                       LAMBDA m : before = <<>> \/ m.timestamp < before[1])
                    n == Len(among)
                IN  /\ Len(fetched'[1]) <= limit
                    /\ fetched'[1] = Last(among, IF limit < n THEN limit ELSE n)]_vars

(***************************************************************************)
(* transfer_ownership (crdt/document.rs), called on the document of a       *)
(* community the engine holds (get_doc_mut).  Rows of other peers come in   *)
(* with the snapshots they offer.                                           *)
(***************************************************************************)
\* set_member_role(old)?; set_member_role(new)?; put(meta, "created_by", new):
\* what was written before a failure stays written
transfer_ownership(doc, old_owner_id, new_owner_id) ==
    LET demoted == document_set_member_role(doc, old_owner_id, <<"admin">>)
        promoted == document_set_member_role(demoted.doc, new_owner_id, <<"owner">>)
    IN  IF ~demoted.ok
        THEN [ok |-> FALSE, doc |-> doc, created_by |-> <<>>]
        ELSE IF ~promoted.ok
             THEN [ok |-> FALSE, doc |-> demoted.doc, created_by |-> <<>>]
             ELSE [ok |-> TRUE, doc |-> promoted.doc, created_by |-> <<new_owner_id>>]

CallTransferOwnership(community_id, old_owner_id, new_owner_id) ==
    /\ has_community(documents, community_id)
    /\ LET result == transfer_ownership(documents[community_id], old_owner_id, new_owner_id)
       IN  /\ documents' = [documents EXCEPT ![community_id] = result.doc]
           /\ returned' = IF result.ok THEN "ok" ELSE "member not found"
           /\ meta_created_by' = IF result.created_by = <<>>
                                 THEN meta_created_by ELSE result.created_by
    /\ UNCHANGED <<loopVars, outVars, dmVars, dirVars, peerVars, pending_join_role_guard,
                   published, frontend, actor_high, awaiting_first_merge, left_communities,
                   kick_pending, relayVars, resetVars, handlerVars, channel_messages,
                   fetched, swarmVars, stopVars, netVars>>

\* the snapshots a peer that holds a copy of the local peer's community
\* offers: with a row for itself, as member or admin
OwnershipBytes ==
    {[loads |-> TRUE,
      doc |-> [init_community_doc(LocalPeer) EXCEPT !.guests[LocalPeer] = role]] :
        role \in {"member", "admin"}}

NextOwnership ==
    \/ \E c \in CommunityIds : CallCreateCommunity(c, LocalPeer)
    \/ \E c \in CommunityIds, b \in OwnershipBytes :
          has_community(documents, c) /\ CallMergeRemoteDoc(c, b)
    \/ \E c \in CommunityIds, ch \in {"ch_a", "ch_b"} : EngineCreateChannel(LocalPeer, c, ch)
    \/ \E c \in CommunityIds, member \in Creators : EngineRemoveMember(LocalPeer, c, member)
    \/ \E c \in CommunityIds, old, new \in Creators : CallTransferOwnership(c, old, new)

SpecOwnership == InitOrder /\ [][NextOwnership]_vars

\* C30: transfer_ownership is atomic: either the old owner becomes admin, the
\* new owner becomes owner and meta.created_by is the new owner, or, on any
\* failure, the document is left exactly as it was, with the old owner still
\* holding the role owner.
C30_TransferIsAtomic ==
    [][\A c \in CommunityIds, old, new \in Creators :
          CallTransferOwnership(c, old, new)
             => \/ /\ returned' = "ok"
                   /\ [peer_id |-> new, roles |-> <<"owner">>] \in get_members(documents', c)
                   /\ old # new =>
                         [peer_id |-> old, roles |-> <<"admin">>] \in get_members(documents', c)
                   /\ meta_created_by' = <<new>>
                \/ /\ returned' # "ok"
                   /\ documents' = documents
                   /\ meta_created_by' = meta_created_by]_vars

\* the elements of a queue
Queued(queue) == {queue[i] : i \in DOMAIN queue}

\* C31: after UnregisterRendezvous{ns} has been handled, and until a later
\* RegisterRendezvous{ns} command (or a DiscoverRendezvous{ns} command, which
\* queues ns for discovery), ns is in neither pending queue nor in
\* registered_namespaces, and the periodic tick does not register it again;
\* whatever the swarm reports in between, a Registered{ns} event for a
\* registration issued before the unregister included.
C31_UnregisteredStaysOut ==
    \A ns \in unregistered :
        /\ ns \notin registered_namespaces
        /\ ns \notin Queued(pending_registrations) \cup Queued(pending_discoveries)
        /\ \A i \in DOMAIN rendezvous_calls :
              ~(rendezvous_calls[i].op = "register" /\ rendezvous_calls[i].namespace = ns)

(***************************************************************************)
(* SpecVoice: the voice channel map and the connected set of the event loop *)
(* (node/mod.rs, start) under the voice gossip and the connections of the   *)
(* peers other than the relay.  Of a participant the map keeps the peer id  *)
(* here; display name and media state are left out.                         *)
(***************************************************************************)
\* how many connections to one peer the swarm holds
MaxConnections == 2

\* the ids a VoiceJoin names: those the commands make, and one with the
\* separator in it
VoiceCommunities == {<<"c1">>, <<"c", ":", "1">>}
VoiceChannelIds == {<<"ch_general">>}

\* key.split_once(':'): the parts before and after the first separator
split_once(key) ==
    LET i == CHOOSE i \in DOMAIN key : key[i] = ":" /\ \A j \in 1..(i - 1) : key[j] # ":"
    IN  <<SubSeq(key, 1, i - 1), SubSeq(key, i + 1, Len(key))>>

VoiceParticipantJoined(community_id, channel_id, peer_id) ==
    [kind |-> "VoiceParticipantJoined", community_id |-> community_id,
     channel_id |-> channel_id, peer_id |-> peer_id]

VoiceParticipantLeft(community_id, channel_id, peer_id) ==
    [kind |-> "VoiceParticipantLeft", community_id |-> community_id,
     channel_id |-> channel_id, peer_id |-> peer_id]

NodeStatus(peers) ==
    [kind |-> "NodeStatus", is_connected |-> peers # {}, peer_count |-> Cardinality(peers)]

VoiceFrame ==
    /\ logged' = <<>>
    /\ sent' = <<>>
    /\ UNCHANGED <<loopVars, dmVars, dirVars, documents, pending_join_role_guard, frontend,
                   actor_high, awaiting_first_merge, left_communities, cmdVars, peerVars,
                   relayVars, resetVars, call, locks, command_queue, loop_at, settings,
                   calls_made, queryVars, stopVars, netVars>>

\* GossipMessage::VoiceJoin
OnVoiceJoin(community_id, channel_id, peer_id) ==
    /\ voice_channels' =
          join_participants(voice_channels, VoiceKey(community_id, channel_id), peer_id)
    /\ emitted' = <<VoiceParticipantJoined(community_id, channel_id, peer_id)>>
    /\ published' = {}
    /\ UNCHANGED swarmVars
    /\ VoiceFrame

\* GossipMessage::VoiceLeave
OnVoiceLeave(community_id, channel_id, peer_id) ==
    /\ voice_channels' =
          leave_participants(voice_channels, VoiceKey(community_id, channel_id), peer_id)
    /\ emitted' = <<VoiceParticipantLeft(community_id, channel_id, peer_id)>>
    /\ published' = {}
    /\ UNCHANGED swarmVars
    /\ VoiceFrame

\* SwarmEvent::ConnectionEstablished for a peer other than the relay
OnPeerConnectionEstablished(peer_id) ==
    /\ established[peer_id] < MaxConnections
    /\ established' = [established EXCEPT ![peer_id] = @ + 1]
    /\ connected_peers' = connected_peers \cup {peer_id}
    /\ emitted' = <<[kind |-> "PeerConnected", peer_id |-> peer_id],
                    [kind |-> "NodeStatus", is_connected |-> TRUE,
                     peer_count |-> Cardinality(connected_peers')]>>
    /\ published' = {RequestSync(LocalPeer),
                     [type |-> "ProfileAnnounce", topic |-> topic_for_directory,
                      body |-> [peer_id |-> LocalPeer]]}
    /\ UNCHANGED voice_channels
    /\ VoiceFrame

\* the lists of the elements of a set, each once
Orderings(set) ==
    {order \in [1..Cardinality(set) -> set] :
        \A i, j \in DOMAIN order : order[i] = order[j] => i = j}

\* mutation of remove_from_all: a channel left without participants stays
remove_from_all_keeping_empty(vc, peer_id) ==
    [k \in DOMAIN vc |-> SelectSeq(vc[k], LAMBDA p : p # peer_id)]

\* participants.retain(|p| p.peer_id != peer_id) on every list, and
\* vc.remove(key) for every key whose list is empty
remove_from_all(vc, peer_id) ==
    LET kept == [k \in DOMAIN vc |-> SelectSeq(vc[k], LAMBDA p : p # peer_id)]
    IN  [k \in {j \in DOMAIN vc : kept[j] # <<>>} |-> kept[k]]

\* the keys of the channels a peer is in
ChannelsOf(vc, peer_id) ==
    {k \in DOMAIN vc : \E i \in DOMAIN vc[k] : vc[k][i] = peer_id}

\* SwarmEvent::ConnectionClosed for a peer other than the relay; the map is
\* iterated in any order
OnPeerConnectionClosed(peer_id) ==
    /\ established[peer_id] > 0
    /\ established' = [established EXCEPT ![peer_id] = @ - 1]
    /\ LET num_established == established[peer_id] - 1
       IN  IF num_established = 0
           THEN /\ connected_peers' = connected_peers \ {peer_id}
                /\ voice_channels' = remove_from_all(voice_channels, peer_id)
                /\ \E order \in Orderings(ChannelsOf(voice_channels, peer_id)) :
                      emitted' =
                          [i \in DOMAIN order |->
                             VoiceParticipantLeft(split_once(order[i])[1],
                                                  split_once(order[i])[2], peer_id)]
                            \o <<[kind |-> "PeerDisconnected", peer_id |-> peer_id],
                                 NodeStatus(connected_peers')>>
           ELSE /\ emitted' = <<>>
                /\ UNCHANGED <<connected_peers, voice_channels>>
    /\ published' = {}
    /\ VoiceFrame

NextVoice ==
    \/ \E c \in VoiceCommunities, ch \in VoiceChannelIds, p \in Peers : OnVoiceJoin(c, ch, p)
    \/ \E c \in VoiceCommunities, ch \in VoiceChannelIds, p \in Peers : OnVoiceLeave(c, ch, p)
    \/ \E p \in RemotePeers : OnPeerConnectionEstablished(p)
    \/ \E p \in RemotePeers : OnPeerConnectionClosed(p)

SpecVoice == InitOrder /\ [][NextVoice]_vars

\* the VoiceParticipantLeft events of a step for one peer
LeftEvents(events, peer_id) ==
    SelectSeq(events, LAMBDA e : e.kind = "VoiceParticipantLeft" /\ e.peer_id = peer_id)

\* C32: when the last connection to a peer closes, the peer is removed from
\* the participants of every voice channel, exactly one VoiceParticipantLeft
\* is emitted per channel it was in, the channels left without participants
\* are removed from the map, and the peer is removed from the connected set;
\* when a connection closes and others to the peer remain, the voice map and
\* the connected set are unchanged.
C32_LastConnectionClosed ==
    [][\A P \in RemotePeers :
          OnPeerConnectionClosed(P)
             => IF established[P] = 1
                THEN /\ ChannelsOf(voice_channels', P) = {}
                     /\ \A k \in DOMAIN voice_channels' : voice_channels'[k] # <<>>
                     /\ \A k \in DOMAIN voice_channels :
                           LET others == SelectSeq(voice_channels[k], LAMBDA p : p # P)
                           IN  IF others = <<>>
                               THEN k \notin DOMAIN voice_channels'
                               ELSE k \in DOMAIN voice_channels'
                                       /\ voice_channels'[k] = others
                     /\ Len(LeftEvents(emitted', P))
                           = Cardinality(ChannelsOf(voice_channels, P))
                     /\ \A k \in ChannelsOf(voice_channels, P) :
                           \E i \in DOMAIN emitted' :
                              /\ emitted'[i].kind = "VoiceParticipantLeft"
                              /\ VoiceKey(emitted'[i].community_id,
                                          emitted'[i].channel_id) = k
                     /\ \A i \in DOMAIN emitted' :
                           emitted'[i].kind = "VoiceParticipantLeft"
                              => emitted'[i].peer_id = P
                     /\ P \notin connected_peers'
                ELSE /\ voice_channels' = voice_channels
                     /\ connected_peers' = connected_peers]_vars

\* the last connection to p1 has closed: p1 was in two channels, one of which
\* it had to itself
C32_Witness ==
    /\ Len(LeftEvents(emitted, "p1")) = 2
    /\ \E i \in DOMAIN emitted : emitted[i].kind = "PeerDisconnected"
    /\ "p1" \notin connected_peers
    /\ established["p1"] = 0
    /\ Cardinality(DOMAIN voice_channels) = 1

(***************************************************************************)
(* SpecStop: stop_node (commands/chat.rs) invoked while the other handlers  *)
(* and the event loop run.  The call waits for the node_handle lock, which  *)
(* a handler in progress holds; the scheduler runs every task that can move,*)
(* and select! takes each branch that is ready again and again in the end.  *)
(***************************************************************************)
\* the frontend invokes stop_node, whatever else is in progress
RequestStop ==
    /\ ~stop_requested
    /\ stop_requested' = TRUE
    /\ UNCHANGED <<loopVars, outVars, dmVars, dirVars, syncVars, cmdVars, peerVars, relayVars,
                   resetVars, handlerVars, queryVars, swarmVars, netVars>>

\* stop_node gets the node_handle lock once no other handler holds it
BeginStop ==
    /\ stop_requested
    /\ Begin("stop_node", [status |-> "online", display_name |-> NameOf[LocalPeer]])
    /\ UNCHANGED calls_made

NextStop ==
    \/ \E cmd \in LockCommands :
          /\ ~stop_requested
          /\ Begin(cmd, [status |-> "online", display_name |-> NameOf[LocalPeer]])
          /\ UNCHANGED calls_made
    \/ RequestStop
    \/ BeginStop
    \/ Step
    \/ Return
    \/ LoopReceive
    \/ LoopTakeOffer(JoinedSnapshot)
    \/ LoopMergeOffer

SpecStop ==
    /\ InitOrder
    /\ [][NextStop]_vars
    /\ WF_vars(BeginStop) /\ WF_vars(Step) /\ WF_vars(Return)
    /\ SF_vars(LoopReceive) /\ WF_vars(LoopMergeOffer)

\* C33: stop_node terminates: the event loop receives what stop_node sent,
\* Shutdown last, and exits, the task is joined, the call returns and the
\* node handle is None afterwards.
C33_StopNodeTerminates ==
    stop_requested ~> (~stop_requested /\ ~node_running /\ returned = "ok")

(***************************************************************************)
(* Claims about the conversation row send_dm writes (checked under SpecDm).*)
(***************************************************************************)
\* the name the conversation with peer is to carry after send_dm: the stored
\* one, else the directory's, else the peer id
PeerDisplayName(peer) ==
    LET conv == dm_conversation_id(LocalPeer, peer)
    IN  IF conv \in DOMAIN dm_conversations THEN dm_conversations[conv].display_name
        ELSE IF peer \in DOMAIN directory THEN directory[peer].display_name
        ELSE peer

\* C34: after send_dm to peer P the conversation row has peer_id = P, the
\* unread_count it had before (0 for a new conversation) and as display_name
\* the name stored before when the conversation existed, else P's name in the
\* directory, else P's peer id; never the sender's own name.
C34_SendDmKeepsPeerName ==
    [][ \A peer \in RemotePeers, now \in Timestamps :
            send_dm(peer, now) =>
               LET conv == dm_conversation_id(LocalPeer, peer)
               IN  /\ dm_conversations'[conv].peer_id = peer
                   /\ dm_conversations'[conv].unread_count =
                         (IF conv \in DOMAIN dm_conversations
                          THEN dm_conversations[conv].unread_count ELSE 0)
                   /\ dm_conversations'[conv].display_name = PeerDisplayName(peer)
      ]_vars

(***************************************************************************)
(* SpecQueue: the pending queues with two namespaces, so that an           *)
(* UnregisterRendezvous can leave one of them queued.                      *)
(***************************************************************************)
QueueNamespaces == {"dusk/community/c1", "dusk/peer/p1"}

NextQueue ==
    \/ \E configured, dial_ok \in BOOLEAN : start(configured, dial_ok)
    \/ clock <= MaxClock /\ Swarm
    \/ OnRelayRetry(FALSE)
    \/ OnRendezvousTick
    \/ \E ns \in QueueNamespaces : OnRegisterRendezvous(ns)
    \/ \E ns \in QueueNamespaces : OnDiscoverRendezvous(ns)
    \/ \E ns \in QueueNamespaces : OnUnregisterRendezvous(ns)
    \/ \E deadline \in Deadlines : Advance(deadline - clock, MaxTickClock)

SpecQueue == InitRelay /\ [][NextQueue]_vars

(***************************************************************************)
(* Claims about the age of the pending queues (checked under SpecQueue).   *)
(***************************************************************************)
\* C35: between handled events pending_queued_at is set if and only if
\* pending_registrations or pending_discoveries is non-empty, whatever the
\* commands, the drain on a reservation and the cleanup of the tick have done.
C35_QueuedAtIffPending ==
    (pending_queued_at # <<>>) <=>
        (pending_registrations # <<>> \/ pending_discoveries # <<>>)

\* an UnregisterRendezvous has emptied one queue and left the other, and
\* with it the age of the queue, in place
C35_Witness ==
    /\ unregistered # {}
    /\ pending_registrations = <<>>
    /\ pending_discoveries # <<>>
    /\ pending_queued_at # <<>>

(***************************************************************************)
(* SpecJoin: the dev server's join_community in the two parts its locks    *)
(* make of it, with the event loop running in between.                     *)
(***************************************************************************)
\* join_community while it holds the engine: placeholder, stale elevated
\* role, meta; the engine is dropped at the end
DevJoinEngine(community_id) ==
    /\ frontend = "dev_server"
    /\ call = <<>>
    /\ LET had_existing_doc == has_community(documents, community_id)
           placed == IF ~had_existing_doc
                     THEN create_placeholder_community(documents, community_id)
                     ELSE documents
       IN  documents' = IF had_existing_doc /\ local_has_elevated_role(placed, community_id)
                        THEN set_member_role(placed, community_id, LocalPeer,
                                             <<"member">>).documents
                        ELSE placed
    /\ IF community_id \in DOMAIN documents'
       THEN /\ call' = <<[cmd |-> "join_community", arg |-> community_id]>>
            /\ awaiting_first_merge' = awaiting_first_merge \cup {community_id}
            /\ community_meta' = community_meta \cup {community_id}
       ELSE UNCHANGED <<call, awaiting_first_merge, community_meta>>
    /\ emitted' = <<>>
    /\ logged' = <<>>
    /\ sent' = <<>>
    /\ published' = {}
    /\ UNCHANGED <<loopVars, dmVars, dirVars, pending_join_role_guard, frontend, actor_high,
                   left_communities, cmdVars, peerVars, relayVars, storedVars, locks,
                   command_queue, loop_at, settings, voice_channels, calls_made, queryVars,
                   swarmVars, stopVars, netVars>>

\* the rest of join_community: the guard entry, then the commands to the node
DevJoinGuard ==
    /\ call # <<>>
    /\ call[1].cmd = "join_community"
    /\ pending_join_role_guard' = pending_join_role_guard \cup {call[1].arg}
    /\ documents' = documents
    /\ JoinSubscribe(call[1].arg, <<[cmd |-> "SendMessage", topic |-> topic_for_sync]>>)
    /\ call' = <<>>
    /\ emitted' = <<>>
    /\ logged' = <<>>
    /\ published' = {}
    /\ UNCHANGED <<seen_dm_ids, node_running, dmVars, dirVars, frontend, actor_high, cmdVars,
                   peerVars, relayVars, resetVars, locks, command_queue, loop_at, settings,
                   voice_channels, calls_made, queryVars, swarmVars, stopVars, netVars>>

InitJoin ==
    /\ InitStorageEmpty
    /\ fts_enabled = TRUE
    /\ frontend = "dev_server"

NextJoin ==
    \/ \E m \in SyncTraffic : SyncDeliver(m)
    \/ OnRequestSync
    \/ OnDocumentOffer
    \/ OnMemberKicked
    \/ \E c \in CommunityIds : call = <<>> /\ CreateCommunity(c)
    \/ \E c \in CommunityIds : DevJoinEngine(c)
    \/ DevJoinGuard
    \/ \E c \in CommunityIds : call = <<>> /\ DevLeaveCommunity(c)

SpecJoin == InitJoin /\ [][NextJoin]_vars

\* C36: whenever the event loop merges the first DocumentOffer for a community
\* after join_community has made it known, the community is in
\* pending_join_role_guard, however the join and the loop interleave.
C36_GuardPresentAtFirstMerge ==
    [][ (Handling("DocumentOffer") /\ gossip_in' = <<>>)
          => LET community_id == gossip_in[1].body.community_id
             IN  (has_community(documents, community_id)
                    /\ community_id \in awaiting_first_merge
                    /\ community_id \notin awaiting_first_merge')
                   => community_id \in pending_join_role_guard
      ]_vars

(***************************************************************************)
(* SpecQuiesce: the sync topic between the local peer and p1, both running *)
(* the handlers of node/mod.rs; commands are invoked while the topic is    *)
(* quiet, and a round of traffic starts with one RequestSync.              *)
(***************************************************************************)
\* a member row of peer_id with role owner or admin
has_elevated_role(docs, community_id, peer_id) ==
    \E member \in get_members(docs, community_id) :
        /\ member.peer_id = peer_id
        /\ \E i \in DOMAIN member.roles : member.roles[i] \in {"owner", "admin"}

\* mutation of the sync handler: every merged offer is answered with an offer
on_sync_message_answering_offers(self, docs, guard, message) ==
    IF message.type = "RequestSync"
    THEN [documents |-> docs, guard |-> guard, merged |-> FALSE, corrected |-> FALSE,
          published |-> {DocumentOffer(cid, get_doc_bytes(docs, cid)) : cid \in DOMAIN docs}]
    ELSE LET community_id == message.body.community_id
             merge_result == merge_remote_doc(docs, community_id, message.body.doc_bytes)
         IN  IF ~has_community(docs, community_id) \/ ~merge_result.ok
             THEN [documents |-> docs, guard |-> guard, merged |-> FALSE,
                   corrected |-> FALSE, published |-> {}]
             ELSE [documents |-> merge_result.documents, guard |-> guard \ {community_id},
                   merged |-> TRUE, corrected |-> FALSE,
                   published |-> {DocumentOffer(community_id,
                                      get_doc_bytes(merge_result.documents, community_id))}]

\* the handler of the sync topic as the peer self runs it on its engine and
\* its guard: what it leaves there and what it publishes
on_sync_message(self, docs, guard, message) ==
    IF message.type = "RequestSync"
    THEN [documents |-> docs, guard |-> guard, merged |-> FALSE, corrected |-> FALSE,
          published |-> {DocumentOffer(cid, get_doc_bytes(docs, cid)) : cid \in DOMAIN docs}]
    ELSE LET community_id == message.body.community_id
             merge_result == merge_remote_doc(docs, community_id, message.body.doc_bytes)
             should_harden_join_role == merge_result.ok /\ community_id \in guard
             hardened ==
                 IF should_harden_join_role
                    /\ has_elevated_role(merge_result.documents, community_id, self)
                 THEN set_member_role(merge_result.documents, community_id, self,
                                      <<"member">>)
                 ELSE [ok |-> FALSE, documents |-> merge_result.documents]
         IN  IF ~has_community(docs, community_id)
             THEN [documents |-> docs, guard |-> guard, merged |-> FALSE,
                   corrected |-> FALSE, published |-> {}]
             ELSE [documents |-> hardened.documents,
                   guard |-> IF should_harden_join_role THEN guard \ {community_id}
                             ELSE guard,
                   merged |-> merge_result.ok,
                   corrected |-> hardened.ok,
                   published |-> IF hardened.ok
                                 THEN {DocumentOffer(community_id,
                                          get_doc_bytes(hardened.documents, community_id))}
                                 ELSE {}]

Quiet == \A p \in Creators : network[p] = <<>>

\* a peer publishes RequestSync; gossipsub carries it to the other peer
PublishRequestSync(peer) ==
    /\ Quiet
    /\ node_running
    /\ network' = [network EXCEPT ![Other(peer)] = <<RequestSync(peer)>>]
    /\ emitted' = <<>>
    /\ logged' = <<>>
    /\ sent' = <<>>
    /\ published' = IF peer = LocalPeer THEN {RequestSync(peer)} ELSE {}
    /\ UNCHANGED <<loopVars, dmVars, dirVars, documents, pending_join_role_guard, frontend,
                   actor_high, awaiting_first_merge, left_communities, cmdVars, peerVars,
                   relayVars, resetVars, handlerVars, queryVars, swarmVars, stopVars,
                   peer_guard>>

\* join_community as p1 runs it on the dev server surface
PeerJoinCommunity(community_id) ==
    /\ LET had_existing_doc == has_community(peer_documents, community_id)
           placed == IF ~had_existing_doc
                     THEN create_placeholder_community(peer_documents, community_id)
                     ELSE peer_documents
       IN  peer_documents' =
              IF had_existing_doc /\ has_elevated_role(placed, community_id, "p1")
              THEN set_member_role(placed, community_id, "p1", <<"member">>).documents
              ELSE placed
    /\ peer_guard' = peer_guard \cup {community_id}
    /\ emitted' = <<>>
    /\ logged' = <<>>
    /\ sent' = <<>>
    /\ published' = {}
    /\ UNCHANGED <<loopVars, dmVars, dirVars, documents, pending_join_role_guard, frontend,
                   actor_high, awaiting_first_merge, left_communities, cmdVars, known,
                   relayVars, resetVars, handlerVars, queryVars, swarmVars, stopVars,
                   network>>

\* the event loop of a peer handles one message of the sync topic
OnSyncMessage(peer) ==
    /\ network[peer] # <<>>
    /\ peer = LocalPeer => node_running /\ topic_for_sync \in subscriptions
    /\ LET message == Head(network[peer])
           handled == on_sync_message(peer,
                                      IF peer = LocalPeer THEN documents ELSE peer_documents,
                                      IF peer = LocalPeer THEN pending_join_role_guard
                                      ELSE peer_guard,
                                      message)
           community_id == message.body.community_id
       IN  /\ \E offers \in Orderings(handled.published) :
                 network' = [network EXCEPT ![peer] = Tail(@),
                                            ![Other(peer)] = @ \o offers]
           /\ IF peer = LocalPeer
              THEN /\ documents' = handled.documents
                   /\ pending_join_role_guard' = handled.guard
                   /\ published' = handled.published
                   /\ subscriptions' =
                         IF handled.merged
                         THEN subscriptions \cup {topic_for_presence(community_id)}
                                \cup ChannelTopics(handled.documents, community_id)
                         ELSE subscriptions
                   /\ emitted' = IF handled.merged
                                 THEN <<[kind |-> "SyncComplete",
                                         community_id |-> community_id]>>
                                 ELSE <<>>
                   /\ awaiting_first_merge' =
                         IF handled.merged
                         THEN awaiting_first_merge \ {community_id}
                         ELSE awaiting_first_merge
                   /\ UNCHANGED <<peer_documents, peer_guard>>
              ELSE /\ peer_documents' = handled.documents
                   /\ peer_guard' = handled.guard
                   /\ published' = {}
                   /\ emitted' = <<>>
                   /\ UNCHANGED <<documents, pending_join_role_guard, subscriptions,
                                  awaiting_first_merge>>
    /\ logged' =
          IF peer # LocalPeer \/ Head(network[peer]).type # "DocumentOffer" THEN <<>>
          ELSE LET community_id == Head(network[peer]).body.community_id
               IN  IF ~has_community(documents, community_id)
                   THEN <<"ignoring document offer for unknown community " \o community_id>>
                   ELSE IF ~Head(network[peer]).body.doc_bytes.loads
                        THEN <<"failed to merge remote doc for " \o community_id>>
                        ELSE IF published' # {}
                             THEN <<"downgraded local elevated role to member during invite join sync for "
                                      \o community_id>>
                             ELSE <<>>
    /\ sent' = <<>>
    /\ UNCHANGED <<seen_dm_ids, node_running, dmVars, dirVars, frontend, actor_high,
                   left_communities, cmdVars, known, relayVars, resetVars, handlerVars,
                   queryVars, swarmVars, stopVars>>

InitQuiesce ==
    /\ InitStorageEmpty
    /\ fts_enabled = TRUE
    /\ frontend \in {"tauri", "dev_server"}

NextQuiesce ==
    \/ \E c \in CommunityIds : Quiet /\ CreateCommunity(c)
    \/ \E c \in CommunityIds : Quiet /\ JoinCommunity(c)
    \/ \E c \in CommunityIds : Quiet /\ DevJoinCommunity(c)
    \/ \E c \in CommunityIds : Quiet /\ DevLeaveCommunity(c)
    \/ \E c \in CommunityIds : Quiet /\ EngineCreateCommunity("p1", c)
    \/ \E c \in CommunityIds : Quiet /\ PeerJoinCommunity(c)
    \/ \E p \in Creators : PublishRequestSync(p)
    \/ \E p \in Creators : OnSyncMessage(p)

SpecQuiesce ==
    /\ InitQuiesce
    /\ [][NextQuiesce]_vars
    /\ \A p \in Creators : WF_vars(OnSyncMessage(p))

\* the engine and the guard of a peer
DocumentsAt(peer) == IF peer = LocalPeer THEN documents ELSE peer_documents
GuardAt(peer) == IF peer = LocalPeer THEN pending_join_role_guard ELSE peer_guard

\* what the step has added to the messages under way to a peer
Added(peer) == SubSeq(network'[peer], Len(network[peer]) + 1, Len(network'[peer]))

\* C37: sync traffic quiesces.  Handling a RequestSync publishes one
\* DocumentOffer per community the engine holds and nothing else; handling a
\* DocumentOffer publishes no RequestSync and at most one DocumentOffer, and
\* that only for a community in the join guard, whose entry it uses up; and
\* after a RequestSync the sync topic between the peers falls quiet again.
C37_SyncTrafficQuiesces ==
    /\ [][ \A p \in Creators :
             OnSyncMessage(p) =>
                LET message == Head(network[p])
                    added == Added(Other(p))
                IN  /\ \A k \in DOMAIN added : added[k].type = "DocumentOffer"
                    /\ message.type = "RequestSync" =>
                          /\ Len(added) = Cardinality(DOMAIN DocumentsAt(p))
                          /\ {added[k].body.community_id : k \in DOMAIN added}
                                = DOMAIN DocumentsAt(p)
                    /\ message.type = "DocumentOffer" =>
                          /\ Len(added) <= 1
                          /\ Len(added) = 1 =>
                                /\ message.body.community_id \in GuardAt(p)
                                /\ message.body.community_id \notin GuardAt(p)'
         ]_vars
    /\ (~Quiet ~> Quiet)

\* the local peer has merged an offer, found itself elevated under a guarded
\* join and published the corrected snapshot, which is under way to p1
C37_Witness ==
    /\ emitted # <<>>
    /\ published # {}
    /\ network["p1"] # <<>>
    /\ "c1" \notin pending_join_role_guard

(***************************************************************************)
(* SpecReconnect: the connection to the relay with failures up to MaxClock *)
(* and a reachable relay from then on.                                     *)
(***************************************************************************)
\* the relay cannot be reached: a dial fails, at once or later, or the
\* connection is lost
RelayFailure ==
    \/ OnOutgoingConnectionError
    \/ OnConnectionClosed
    \/ OnRelayRetry(FALSE)

\* the relay answers: the dial gets under way and through, the reservation
\* is accepted
RelayProgress ==
    \/ OnRelayRetry(TRUE)
    \/ OnConnectionEstablished
    \/ OnReservationReqAccepted

\* the timers of the loop other than the retry, and the time up to the next one
TimePasses ==
    \/ OnRelayWarn
    \/ OnRendezvousTick
    \/ \E deadline \in Deadlines :
          Advance(deadline - clock, MaxClock + RELAY_MAX_BACKOFF_SECS)

NextReconnect ==
    \/ \E dial_ok \in BOOLEAN : start(TRUE, dial_ok)
    \/ clock <= MaxClock /\ RelayFailure
    \/ RelayProgress
    \/ TimePasses

SpecReconnect ==
    /\ InitRelay
    /\ [][NextReconnect]_vars
    /\ WF_vars(RelayProgress)
    /\ WF_vars(TimePasses)

C39_AnnouncedOnlyByOwnKey ==
    [][ (OnProfileAnnounce /\ emitted' # <<>>) =>
          LET a == gossip_in[1].body
          IN  /\ a.public_key = PublicKeyHex[KeyOf[a.peer_id]]
              /\ verify_announcement(PublicKeyHex[KeyOf[a.peer_id]], a)
      ]_vars

(***************************************************************************)
(* Claims about deletions that arrive as gossip (checked under SpecChat,   *)
(* where the remote peer p1 is the publisher of every message delivered).  *)
(***************************************************************************)
\* C40: the author-only rule of delete_message holds for remote effects too:
\* a DeleteMessage published by a peer removes a message from the local
\* document only if that peer is the author of the message.
C40_RemoteDeleteOnlyByAuthor ==
    [][ OnDeleteMessage =>
          \A c \in DOMAIN documents :
             \A e \in MessageEntries(documents[c]) \ MessageEntries(documents'[c]) :
                e.author_id = "p1"
      ]_vars

====
